---------------------------- MODULE Spec2Model ----------------------------
(***************************************************************************)
(* A model of xtream2m3u: the pattern matcher (app/utils/helpers.py), the  *)
(* catalog fetcher (app/services/xtream_api.py), the playlist synthesizer  *)
(* (app/services/m3u_generator.py), the streaming proxy                    *)
(* (app/utils/streaming.py, app/routes/proxy.py) and the /m3u route        *)
(* (app/routes/api.py).                                                    *)
(*                                                                         *)
(* Python strings are sequences of one-character strings, so that         *)
(* lower(), split(), zfill(), fnmatch and substring tests are computed     *)
(* character by character, as the code computes them.                     *)
(***************************************************************************)
EXTENDS Integers, Sequences, FiniteSets, TLC

(***************************************************************************)
(* Bounds of the model.                                                    *)
(***************************************************************************)
MaxPatterns == 2
MaxStreams == 3
MaxItems == 1
MaxChunks == 2
MaxLabelLen == 3
MaxPatternLen == 3

(***************************************************************************)
(* State.  The synthesizer, the catalog fetcher and the proxy share no     *)
(* state: each has its own variables and its own specification.            *)
(***************************************************************************)
VARIABLES
    m3u_args,             \* the arguments of generate_m3u_playlist
    pc_m3u,               \* "start", "running", "done" or "raised"
    lookups,              \* the submitted fetch_series_episodes futures
    series_episodes_map,  \* series id -> resolved episodes
    processed_streams,    \* streams the loop has been through
    m3u_playlist,         \* the records after #EXTM3U
    included,             \* include_stream of each processed stream
    origin                \* for each record, the index of its stream

VARIABLES
    fetch_args,     \* include_vod, and the route the request came in on
    pc_fetch,       \* "start", "fetching", "done"
    futures,        \* endpoint name -> "queued", "running" or "done"
    future_result,  \* endpoint name -> what its finished future holds
    results,        \* endpoint name -> what the as_completed loop stored
    fetch_return    \* what fetch_categories_and_channels returned

VARIABLES
    proxy_request,  \* the route and the unquoted original URL
    pc_proxy,       \* "start", "responded", "streaming", "ended", "closed"
    upstream,       \* the outcome of the upstream GET; whether close() was called
    outbound,       \* the response returned and the body bytes yielded so far
    generator       \* generate(): its state, the chunks read, how it ended

VARIABLES
    match_args,     \* the arguments of one call of group_matches
    match_return    \* <<>> before the call returns, then <<its result>>

VARIABLES
    m3u_requests    \* request id -> the locals of one call of the /m3u route

VARIABLES
    generate_args,    \* the inputs of one call of generate_m3u_playlist
    generate_return   \* <<>> before the call returns, then <<what it returned>>

m3u_vars == <<m3u_args, pc_m3u, lookups, series_episodes_map, processed_streams,
              m3u_playlist, included, origin>>

fetch_vars == <<fetch_args, pc_fetch, futures, future_result, results, fetch_return>>

proxy_vars == <<proxy_request, pc_proxy, upstream, outbound, generator>>

match_vars == <<match_args, match_return>>

request_vars == <<m3u_requests>>

generate_vars == <<generate_args, generate_return>>

\* what the actions of one component leave alone
beside_m3u == <<fetch_vars, proxy_vars, match_vars, request_vars, generate_vars>>
beside_fetch == <<m3u_vars, proxy_vars, match_vars, request_vars, generate_vars>>
beside_proxy == <<m3u_vars, fetch_vars, match_vars, request_vars, generate_vars>>
beside_match == <<m3u_vars, fetch_vars, proxy_vars, request_vars, generate_vars>>
beside_request == <<m3u_vars, fetch_vars, proxy_vars, match_vars, generate_vars>>
beside_generate == <<m3u_vars, fetch_vars, proxy_vars, match_vars, request_vars>>

vars == <<m3u_vars, fetch_vars, proxy_vars, match_vars, request_vars, generate_vars>>

(***************************************************************************)
(* Strings.                                                                *)
(***************************************************************************)
UpperChars ==
    <<"A", "B", "C", "D", "E", "F", "G", "H", "I", "J", "K", "L", "M",
      "N", "O", "P", "Q", "R", "S", "T", "U", "V", "W", "X", "Y", "Z",
      "À", "Á", "Â", "Ã", "Ä", "Å", "Æ", "Ç", "È", "É", "Ê", "Ë", "Ì",
      "Í", "Î", "Ï", "Ð", "Ñ", "Ò", "Ó", "Ô", "Õ", "Ö", "Ø", "Ù", "Ú",
      "Û", "Ü", "Ý", "Þ">>
LowerChars ==
    <<"a", "b", "c", "d", "e", "f", "g", "h", "i", "j", "k", "l", "m",
      "n", "o", "p", "q", "r", "s", "t", "u", "v", "w", "x", "y", "z",
      "à", "á", "â", "ã", "ä", "å", "æ", "ç", "è", "é", "ê", "ë", "ì",
      "í", "î", "ï", "ð", "ñ", "ò", "ó", "ô", "õ", "ö", "ø", "ù", "ú",
      "û", "ü", "ý", "þ">>
Digits == <<"0", "1", "2", "3", "4", "5", "6", "7", "8", "9">>

\* The characters of the model's strings: printable ASCII, Latin-1 from the
\* no-break space on, and the whitespace below it.  The backquote and the
\* characters above Latin-1 cannot be written in a string here and are
\* left out.
AsciiChars ==
    <<" ", "!", "\"", "#", "$", "%", "&", "'", "(", ")", "*", "+", ",", "-", ".", "/",
      "0", "1", "2", "3", "4", "5", "6", "7", "8", "9", ":", ";", "<", "=", ">", "?",
      "@", "A", "B", "C", "D", "E", "F", "G", "H", "I", "J", "K", "L", "M", "N", "O",
      "P", "Q", "R", "S", "T", "U", "V", "W", "X", "Y", "Z", "[", "\\", "]", "^", "_",
      "a", "b", "c", "d", "e", "f", "g", "h", "i", "j", "k", "l", "m", "n", "o", "p",
      "q", "r", "s", "t", "u", "v", "w", "x", "y", "z", "{", "|", "}", "~">>

Latin1Chars ==
    <<" ", "¡", "¢", "£", "¤", "¥", "¦", "§", "¨", "©", "ª", "«", "¬", "­", "®", "¯",
      "°", "±", "²", "³", "´", "µ", "¶", "·", "¸", "¹", "º", "»", "¼", "½", "¾", "¿",
      "À", "Á", "Â", "Ã", "Ä", "Å", "Æ", "Ç", "È", "É", "Ê", "Ë", "Ì", "Í", "Î", "Ï",
      "Ð", "Ñ", "Ò", "Ó", "Ô", "Õ", "Ö", "×", "Ø", "Ù", "Ú", "Û", "Ü", "Ý", "Þ", "ß",
      "à", "á", "â", "ã", "ä", "å", "æ", "ç", "è", "é", "ê", "ë", "ì", "í", "î", "ï",
      "ð", "ñ", "ò", "ó", "ô", "õ", "ö", "÷", "ø", "ù", "ú", "û", "ü", "ý", "þ", "ÿ">>

\* the whitespace besides the space and the no-break space (\t, \n, \x0b,
\* \f, \r, \x1c to \x1f, \x85), each with its code point
SpaceChars ==
    <<<<"\t", 9>>, <<"\n", 10>>, <<"", 11>>, <<"\f", 12>>, <<"\r", 13>>,
      <<"", 28>>, <<"", 29>>, <<"", 30>>, <<"", 31>>, <<"", 133>>>>

\* ord(c)
CodeOf ==
    [c \in {AsciiChars[i] : i \in DOMAIN AsciiChars}
            \cup {Latin1Chars[i] : i \in DOMAIN Latin1Chars}
            \cup {SpaceChars[i][1] : i \in DOMAIN SpaceChars} |->
        IF \E i \in DOMAIN AsciiChars : AsciiChars[i] = c
        THEN LET at == CHOOSE i \in DOMAIN AsciiChars : AsciiChars[i] = c
             IN  IF at <= 64 THEN at + 31 ELSE at + 32
        ELSE IF \E i \in DOMAIN Latin1Chars : Latin1Chars[i] = c
        THEN (CHOOSE i \in DOMAIN Latin1Chars : Latin1Chars[i] = c) + 159
        ELSE SpaceChars[CHOOSE i \in DOMAIN SpaceChars : SpaceChars[i][1] = c][2]]

Ord(c) == CodeOf[c]

\* str.lower() on one character
LowerOf ==
    [c \in {UpperChars[i] : i \in DOMAIN UpperChars} |->
        LowerChars[CHOOSE i \in DOMAIN UpperChars : UpperChars[i] = c]]

lower_char(c) == IF c \in DOMAIN LowerOf THEN LowerOf[c] ELSE c

\* str.lower()
lower(s) == [i \in 1..Len(s) |-> lower_char(s[i])]

\* str.isspace() on one character: what str.split() splits on and
\* str.strip() removes
IsSpace(c) ==
    c \in {" ", Latin1Chars[1]} \cup {SpaceChars[i][1] : i \in DOMAIN SpaceChars}

\* c in s, for a character c
HasChar(s, c) == \E i \in 1..Len(s) : s[i] = c

\* sub in s, for strings
Contains(s, sub) ==
    \E i \in 0..(Len(s) - Len(sub)) : SubSeq(s, i + 1, i + Len(sub)) = sub

\* s.startswith(prefix)
StartsWith(s, prefix) ==
    Len(prefix) <= Len(s) /\ SubSeq(s, 1, Len(prefix)) = prefix

\* s.endswith(suffix)
EndsWith(s, suffix) ==
    Len(suffix) <= Len(s) /\ SubSeq(s, Len(s) - Len(suffix) + 1, Len(s)) = suffix

\* str.split() with no argument: the maximal runs of non-whitespace
RECURSIVE SplitFrom(_, _, _)
SplitFrom(s, i, cur) ==
    IF i > Len(s)
    THEN IF cur = <<>> THEN <<>> ELSE <<cur>>
    ELSE IF IsSpace(s[i])
         THEN (IF cur = <<>> THEN <<>> ELSE <<cur>>) \o SplitFrom(s, i + 1, <<>>)
         ELSE SplitFrom(s, i + 1, Append(cur, s[i]))

split(s) == SplitFrom(s, 1, <<>>)

\* fnmatch.translate at a '[' that starts pat: the index of the ']' that
\* closes the class (a '!' and then a ']' right after the '[' do not close
\* it), or 0 when there is none and the '[' is a literal
ClassEnd(pat) ==
    LET a == IF Len(pat) >= 2 /\ pat[2] = "!" THEN 3 ELSE 2
        b == IF Len(pat) >= a /\ pat[a] = "]" THEN a + 1 ELSE a
        closing == {j \in b..Len(pat) : pat[j] = "]"}
    IN  IF closing = {} THEN 0 ELSE CHOOSE j \in closing : \A k \in closing : j <= k

\* fnmatch.translate on the body of a class that has a '-': the pieces
\* between the hyphens that stand for ranges.  The search for the next
\* hyphen starts at k; after a hyphen at d the next piece starts at d + 1
\* and the search at d + 3.
RECURSIVE ClassPieces(_, _, _)
ClassPieces(stuff, i, k) ==
    LET dashes == {d \in k..Len(stuff) : stuff[d] = "-"}
    IN  IF dashes = {} THEN <<SubSeq(stuff, i, Len(stuff))>>
        ELSE LET d == CHOOSE x \in dashes : \A y \in dashes : x <= y
             IN  <<SubSeq(stuff, i, d - 1)>> \o ClassPieces(stuff, d + 1, d + 3)

\* chunks: an empty last piece gives its hyphen to the piece before it
ClassChunksOf(stuff) ==
    LET pieces == ClassPieces(stuff, 1, IF stuff[1] = "!" THEN 3 ELSE 2)
        n == Len(pieces)
    IN  IF pieces[n] # <<>> THEN pieces
        ELSE SubSeq(pieces, 1, n - 2) \o <<Append(pieces[n - 1], "-")>>

\* "Remove empty ranges": from the last chunk to the second, a chunk that
\* starts below the end of the chunk before it is merged into that chunk,
\* both ends of the range dropped
RECURSIVE RemoveEmptyRanges(_, _)
RemoveEmptyRanges(chunks, k) ==
    IF k < 2 THEN chunks
    ELSE IF Ord(chunks[k - 1][Len(chunks[k - 1])]) > Ord(chunks[k][1])
         THEN RemoveEmptyRanges(
                  SubSeq(chunks, 1, k - 2)
                  \o <<SubSeq(chunks[k - 1], 1, Len(chunks[k - 1]) - 1) \o Tail(chunks[k])>>
                  \o SubSeq(chunks, k + 1, Len(chunks)),
                  k - 1)
         ELSE RemoveEmptyRanges(chunks, k - 1)

\* "-".join(chunks) with the characters of the chunks escaped: every
\* character of a chunk stands for itself, a joining hyphen is the range
\* operator, written here as the token "range"
RECURSIVE JoinChunks(_, _)
JoinChunks(chunks, k) ==
    IF k > Len(chunks) THEN <<>>
    ELSE (IF k > 1 THEN <<"range">> ELSE <<>>) \o chunks[k] \o JoinChunks(chunks, k + 1)

\* the escaped body of the class
ClassTokens(stuff) ==
    IF ~HasChar(stuff, "-") THEN stuff
    ELSE JoinChunks(RemoveEmptyRanges(ClassChunksOf(stuff), Len(ClassChunksOf(stuff))), 1)

\* c against the regular-expression set with these tokens: lo-hi for a
\* range operator between two tokens, a range operator with nothing
\* before or after it a plain hyphen
RECURSIVE InClassBody(_, _, _)
InClassBody(c, tokens, i) ==
    IF i > Len(tokens) THEN FALSE
    ELSE LET lo == IF tokens[i] = "range" THEN "-" ELSE tokens[i]
         IN  IF i + 2 <= Len(tokens) /\ tokens[i + 1] = "range"
             THEN LET hi == IF tokens[i + 2] = "range" THEN "-" ELSE tokens[i + 2]
                  IN  (Ord(lo) <= Ord(c) /\ Ord(c) <= Ord(hi))
                      \/ InClassBody(c, tokens, i + 3)
             ELSE lo = c \/ InClassBody(c, tokens, i + 1)

\* the class as fnmatch.translate writes it: nothing left matches no
\* character, a lone '!' matches any, a leading '!' negates
InClass(c, stuff) ==
    LET tokens == ClassTokens(stuff)
    IN  IF tokens = <<>> THEN FALSE
        ELSE IF tokens = <<"!">> THEN TRUE
        ELSE IF tokens[1] = "!" THEN ~InClassBody(c, tokens, 2)
        ELSE InClassBody(c, tokens, 1)

\* fnmatch.fnmatch on lower-cased strings: '*', '?', [seq], [!seq] and
\* literal characters, matched against the whole name
RECURSIVE fnmatch(_, _)
fnmatch(name, pat) ==
    IF pat = <<>> THEN name = <<>>
    ELSE IF Head(pat) = "*"
         THEN fnmatch(name, Tail(pat)) \/ (name # <<>> /\ fnmatch(Tail(name), pat))
    ELSE IF Head(pat) = "?"
         THEN name # <<>> /\ fnmatch(Tail(name), Tail(pat))
    ELSE IF Head(pat) = "[" /\ ClassEnd(pat) # 0
         THEN /\ name # <<>>
              /\ InClass(Head(name), SubSeq(pat, 2, ClassEnd(pat) - 1))
              /\ fnmatch(Tail(name), SubSeq(pat, ClassEnd(pat) + 1, Len(pat)))
    ELSE name # <<>> /\ Head(name) = Head(pat) /\ fnmatch(Tail(name), Tail(pat))

\* one pattern token against the label token at the same position
PartMatches(group_part, part) ==
    IF HasChar(part, "*") \/ HasChar(part, "?")
    THEN fnmatch(group_part, part)
    ELSE Contains(group_part, part)

\* helpers.group_matches
GroupMatchesCaseSensitive(group_title, pattern) ==
    IF HasChar(pattern, " ")
    THEN LET pattern_parts == split(pattern)
             group_parts == split(group_title)
         IN  IF Len(pattern_parts) > Len(group_parts)
             THEN FALSE
             ELSE \A i \in 1..Len(pattern_parts) :
                    PartMatches(group_parts[i], pattern_parts[i])
    ELSE IF HasChar(pattern, "*") \/ HasChar(pattern, "?")
         THEN fnmatch(group_title, pattern)
         ELSE Contains(group_title, pattern)

GroupMatchesAnyToken(group_title, pattern) ==
    LET group_lower == lower(group_title)
        pattern_lower == lower(pattern)
    IN  IF HasChar(pattern_lower, " ")
        THEN LET pattern_parts == split(pattern_lower)
                 group_parts == split(group_lower)
             IN  \A i \in 1..Len(pattern_parts) :
                    \E j \in 1..Len(group_parts) :
                        PartMatches(group_parts[j], pattern_parts[i])
        ELSE IF HasChar(pattern_lower, "*") \/ HasChar(pattern_lower, "?")
             THEN fnmatch(group_lower, pattern_lower)
             ELSE Contains(group_lower, pattern_lower)

group_matches(group_title, pattern) ==
    LET group_lower == lower(group_title)
        pattern_lower == lower(pattern)
    IN  IF HasChar(pattern_lower, " ")
        THEN LET pattern_parts == split(pattern_lower)
                 group_parts == split(group_lower)
             IN  IF Len(pattern_parts) > Len(group_parts)
                 THEN FALSE
                 ELSE \A i \in 1..Len(pattern_parts) :
                        PartMatches(group_parts[i], pattern_parts[i])
        ELSE IF HasChar(pattern_lower, "*") \/ HasChar(pattern_lower, "?")
             THEN fnmatch(group_lower, pattern_lower)
             ELSE Contains(group_lower, pattern_lower)

(***************************************************************************)
(* Python values used by the playlist synthesizer.                         *)
(***************************************************************************)
\* str(n) for a non-negative int
RECURSIVE IntToStr(_)
IntToStr(n) ==
    IF n < 10 THEN <<Digits[n + 1]>>
    ELSE IntToStr(n \div 10) \o <<Digits[(n % 10) + 1]>>

\* str.isdigit(): the decimal digits and, in Latin-1, the superscripts
\* one, two and three
isdigit(s) ==
    s # <<>> /\ \A i \in 1..Len(s) :
                  \/ \E d \in DOMAIN Digits : Digits[d] = s[i]
                  \/ s[i] \in {"¹", "²", "³"}

DigitValue(c) == (CHOOSE d \in DOMAIN Digits : Digits[d] = c) - 1

\* int(s) raises ValueError on a string that isdigit() accepts: a
\* superscript is a digit and not a decimal
IntRaises(s) == \E i \in 1..Len(s) : \A d \in DOMAIN Digits : Digits[d] # s[i]

\* int(s) for a string of decimal digits
RECURSIVE StrToInt(_)
StrToInt(s) ==
    IF s = <<>> THEN 0
    ELSE StrToInt(SubSeq(s, 1, Len(s) - 1)) * 10 + DigitValue(s[Len(s)])

RECURSIVE Zeros(_)
Zeros(n) == IF n <= 0 THEN <<>> ELSE <<"0">> \o Zeros(n - 1)

\* str.zfill(width): zeros on the left, after a leading sign
zfill(s, width) ==
    IF Len(s) >= width THEN s
    ELSE IF s # <<>> /\ Head(s) \in {"+", "-"}
         THEN <<Head(s)>> \o Zeros(width - Len(s)) \o Tail(s)
         ELSE Zeros(width - Len(s)) \o s

\* dict.get(key, default) for an optional field kept as <<>> or <<value>>
GetOr(field, default) == IF field = <<>> THEN default ELSE field[1]

HexDigits == <<"0", "1", "2", "3", "4", "5", "6", "7", "8", "9", "A", "B", "C", "D", "E", "F">>

\* the bytes of a character in UTF-8
Utf8Bytes(code) ==
    IF code < 128 THEN <<code>>
    ELSE IF code < 2048 THEN <<192 + (code \div 64), 128 + (code % 64)>>
    ELSE <<224 + (code \div 4096), 128 + ((code \div 64) % 64), 128 + (code % 64)>>

\* %XX for each byte
RECURSIVE PercentBytes(_, _)
PercentBytes(bytes, i) ==
    IF i > Len(bytes) THEN <<>>
    ELSE <<"%", HexDigits[(bytes[i] \div 16) + 1], HexDigits[(bytes[i] % 16) + 1]>>
         \o PercentBytes(bytes, i + 1)

\* urllib.parse.quote(url, safe="") on one character: ASCII letters, digits
\* and "_.-~" are kept, every other character is written as the %XX escapes
\* of its UTF-8 bytes
QuoteOf ==
    [c \in DOMAIN CodeOf |->
        IF \/ CodeOf[c] \in (48..57) \cup (65..90) \cup (97..122)
           \/ c \in {"_", ".", "-", "~"}
        THEN <<c>>
        ELSE PercentBytes(Utf8Bytes(CodeOf[c]), 1)]

QuoteChar(c) == QuoteOf[c]

RECURSIVE QuoteFrom(_, _)
QuoteFrom(s, i) ==
    IF i > Len(s) THEN <<>> ELSE QuoteChar(s[i]) \o QuoteFrom(s, i + 1)

\* helpers.encode_url
encode_url(url) == IF url # <<>> THEN QuoteFrom(url, 1) ELSE <<>>

(***************************************************************************)
(* String constants of the code.                                           *)
(***************************************************************************)
STR_Uncategorized == <<"U", "n", "c", "a", "t", "e", "g", "o", "r", "i", "z", "e", "d">>
STR_SeriesPrefix == <<"S", "e", "r", "i", "e", "s", " ", "-", " ">>
STR_VodPrefix == <<"V", "O", "D", " ", "-", " ">>
STR_mp4 == <<"m", "p", "4">>
STR_ts == <<".", "t", "s">>
STR_m3u8 == <<".", "m", "3", "u", "8">>
STR_live_path == <<"/", "l", "i", "v", "e", "/">>
STR_movie_path == <<"/", "m", "o", "v", "i", "e", "/">>
STR_series_path == <<"/", "s", "e", "r", "i", "e", "s", "/">>
STR_image_proxy == <<"/", "i", "m", "a", "g", "e", "-", "p", "r", "o", "x", "y", "/">>
STR_stream_proxy == <<"/", "s", "t", "r", "e", "a", "m", "-", "p", "r", "o", "x", "y", "/">>
STR_tvg_name == <<"t", "v", "g", "-", "n", "a", "m", "e">>
STR_group_title == <<"g", "r", "o", "u", "p", "-", "t", "i", "t", "l", "e">>
STR_tvg_logo == <<"t", "v", "g", "-", "l", "o", "g", "o">>
STR_image_slash == <<"i", "m", "a", "g", "e", "/">>

(***************************************************************************)
(* Playlist synthesizer: the pure parts of generate_m3u_playlist.          *)
(***************************************************************************)
\* category_names = {cat["category_id"]: cat["category_name"] ...}: a later
\* category with the same id replaces an earlier one
LookupCategory(cats, id) ==
    LET hits == {i \in 1..Len(cats) : cats[i].category_id = id}
    IN  IF hits = {} THEN <<>>
        ELSE <<cats[CHOOSE i \in hits : \A j \in hits : j <= i].category_name>>

\* category_names.get(stream.get("category_id"), "Uncategorized")
CategoryName(cats, stream) ==
    GetOr(LookupCategory(cats, stream.category_id), STR_Uncategorized)

\* the group title of a stream, by content type
GroupTitle(cats, stream) ==
    IF stream.content_type = "series"
    THEN STR_SeriesPrefix \o CategoryName(cats, stream)
    ELSE IF stream.content_type = "vod"
         THEN STR_VodPrefix \o CategoryName(cats, stream)
         ELSE CategoryName(cats, stream)

\* any(group_matches(category_name, p) or group_matches(group_title, p) for p in groups)
AnyGroupMatches(category_name, group_title, groups) ==
    \E k \in 1..Len(groups) :
        group_matches(category_name, groups[k]) \/ group_matches(group_title, groups[k])

\* The filter of the stream loop: wanted_patterns and unwanted_patterns are
\* non-empty exactly when wanted_groups and unwanted_groups are.
IncludeStreamMerged(category_name, group_title, wanted, unwanted) ==
    /\ wanted # <<>> => AnyGroupMatches(category_name, group_title, wanted)
    /\ unwanted # <<>> => ~AnyGroupMatches(category_name, group_title, unwanted)

IncludeStreamUnwantedFirst(category_name, group_title, wanted, unwanted) ==
    IF unwanted # <<>>
    THEN ~AnyGroupMatches(category_name, group_title, unwanted)
    ELSE IF wanted # <<>>
         THEN AnyGroupMatches(category_name, group_title, wanted)
         ELSE TRUE

include_stream(category_name, group_title, wanted, unwanted) ==
    IF wanted # <<>>
    THEN AnyGroupMatches(category_name, group_title, wanted)
    ELSE IF unwanted # <<>>
         THEN ~AnyGroupMatches(category_name, group_title, unwanted)
         ELSE TRUE

\* The series pre-filter (should_fetch), the same test on "Series - <name>"
ShouldFetchEverySeries(cats, stream, wanted, unwanted) == TRUE

should_fetch(cats, stream, wanted, unwanted) ==
    LET category_name == CategoryName(cats, stream)
        group_title == STR_SeriesPrefix \o category_name
    IN  IF wanted # <<>>
        THEN AnyGroupMatches(category_name, group_title, wanted)
        ELSE IF unwanted # <<>>
             THEN ~AnyGroupMatches(category_name, group_title, unwanted)
             ELSE TRUE

\* key=lambda x: int(x[0]) if str(x[0]).isdigit() else 999, with the
\* ValueError of int() as an outcome of its own
SeasonSortKey(season_num) ==
    IF isdigit(season_num)
    THEN IF IntRaises(season_num) THEN [raised |-> TRUE, key |-> 0]
         ELSE [raised |-> FALSE, key |-> StrToInt(season_num)]
    ELSE [raised |-> FALSE, key |-> 999]

\* sorted(): stable, so an item goes after every item whose key is <= its own
RECURSIVE InsertByKey(_, _)
InsertByKey(sorted, item) ==
    IF sorted = <<>> THEN <<item>>
    ELSE IF SeasonSortKey(sorted[Len(sorted)].season_num).key
              <= SeasonSortKey(item.season_num).key
         THEN Append(sorted, item)
         ELSE Append(InsertByKey(SubSeq(sorted, 1, Len(sorted) - 1), item),
                     sorted[Len(sorted)])

RECURSIVE SortSeasonsFrom(_, _, _)
SortSeasonsFrom(items, i, acc) ==
    IF i > Len(items) THEN acc
    ELSE SortSeasonsFrom(items, i + 1, InsertByKey(acc, items[i]))

\* try: sorted(episodes_data.items(), key=...); except: the items as they
\* are, when the key raised on one of them
sorted_seasons(items) ==
    IF \E i \in 1..Len(items) : SeasonSortKey(items[i].season_num).raised
    THEN items
    ELSE SortSeasonsFrom(items, 1, <<>>)

\* the tags of a stream's metadata line
LogoUrl(stream, no_stream_proxy, proxy_url) ==
    IF stream.stream_icon # <<>> /\ ~no_stream_proxy
    THEN proxy_url \o STR_image_proxy \o encode_url(stream.stream_icon)
    ELSE stream.stream_icon

\* tags with tvg-logo left out for a stream without a logo
StreamTagsLogoWhenPresent(stream, group_title, no_stream_proxy, proxy_url, include_channel_id, channel_id_tag) ==
    << [key |-> STR_tvg_name, value |-> stream.name],
       [key |-> STR_group_title, value |-> group_title] >>
    \o (IF stream.stream_icon # <<>>
        THEN << [key |-> STR_tvg_logo, value |-> LogoUrl(stream, no_stream_proxy, proxy_url)] >>
        ELSE <<>>)
    \o (IF include_channel_id /\ stream.epg_channel_id # <<>>
        THEN << [key |-> channel_id_tag, value |-> stream.epg_channel_id] >>
        ELSE <<>>)

\* tags = [tvg-name, group-title]; tags.append(tvg-logo); the channel id tag
\* appended when enabled and the stream has one
StreamTags(stream, group_title, no_stream_proxy, proxy_url, include_channel_id, channel_id_tag) ==
    << [key |-> STR_tvg_name, value |-> stream.name],
       [key |-> STR_group_title, value |-> group_title],
       [key |-> STR_tvg_logo, value |-> LogoUrl(stream, no_stream_proxy, proxy_url)] >>
    \o (IF include_channel_id /\ stream.epg_channel_id # <<>>
        THEN << [key |-> channel_id_tag, value |-> stream.epg_channel_id] >>
        ELSE <<>>)

\* Apply stream proxying if enabled
ProxyStreamUrlTwice(stream_url, no_stream_proxy, proxy_url) ==
    IF ~no_stream_proxy
    THEN proxy_url \o STR_stream_proxy
            \o encode_url(proxy_url \o STR_stream_proxy \o encode_url(stream_url))
    ELSE stream_url

ProxyStreamUrl(stream_url, no_stream_proxy, proxy_url) ==
    IF ~no_stream_proxy
    THEN proxy_url \o STR_stream_proxy \o encode_url(stream_url)
    ELSE stream_url

\* full_title of an episode
EpisodeTitleSeparated(stream_name, season_num, episode) ==
    stream_name \o <<" ", "-", " ", "S">> \o zfill(season_num, 2) \o <<" ", "-", " ", "E">>
        \o zfill(IntToStr(episode.episode_num), 2) \o <<" ", "-", " ">> \o episode.title

episode_title(stream_name, season_num, episode) ==
    stream_name \o <<" ", "-", " ", "S">> \o zfill(season_num, 2) \o <<"E">>
        \o zfill(IntToStr(episode.episode_num), 2) \o <<" ", "-", " ">> \o episode.title

\* ep_stream_url of an episode, before proxying
EpisodeUrlNoExtension(server_url, username, password, episode) ==
    server_url \o STR_series_path \o username \o <<"/">> \o password \o <<"/">>
        \o episode.id \o <<".">> \o STR_mp4

episode_url(server_url, username, password, episode) ==
    server_url \o STR_series_path \o username \o <<"/">> \o password \o <<"/">>
        \o episode.id \o <<".">> \o GetOr(episode.container_extension, STR_mp4)

\* the media URL of a live or vod stream, or the fallback URL of a series
stream_url(stream, server_url, username, password) ==
    IF stream.content_type = "live"
    THEN server_url \o STR_live_path \o username \o <<"/">> \o password \o <<"/">>
            \o IntToStr(stream.stream_id[1]) \o STR_ts
    ELSE IF stream.content_type = "vod"
    THEN server_url \o STR_movie_path \o username \o <<"/">> \o password \o <<"/">>
            \o IntToStr(stream.stream_id[1]) \o <<".">>
            \o GetOr(stream.container_extension, STR_mp4)
    ELSE server_url \o STR_series_path \o username \o <<"/">> \o password \o <<"/">>
            \o (IF stream.series_id # <<>> THEN IntToStr(stream.series_id[1])
                ELSE IF stream.stream_id # <<>> THEN IntToStr(stream.stream_id[1])
                ELSE <<>>)
            \o <<".">> \o STR_mp4

\* the records of the episodes of one season, in the order returned
RECURSIVE SeasonRecords(_, _, _, _, _)
SeasonRecords(a, stream, tags, season, i) ==
    IF i > Len(season.episodes) THEN <<>>
    ELSE << [tags |-> tags, directives |-> <<>>,
             title |-> episode_title(stream.name, season.season_num, season.episodes[i]),
             url |-> ProxyStreamUrl(
                        episode_url(a.server_url, a.username, a.password, season.episodes[i]),
                        a.no_stream_proxy, a.proxy_url)] >>
         \o SeasonRecords(a, stream, tags, season, i + 1)

RECURSIVE EpisodeRecords(_, _, _, _, _)
EpisodeRecords(a, stream, tags, seasons, i) ==
    IF i > Len(seasons) THEN <<>>
    ELSE SeasonRecords(a, stream, tags, seasons[i], 1)
         \o EpisodeRecords(a, stream, tags, seasons, i + 1)

\* series_episodes_map.get(stream.get("series_id"))
EpisodesData(map, stream) ==
    IF stream.series_id # <<>> /\ stream.series_id[1] \in DOMAIN map
    THEN <<map[stream.series_id[1]]>>
    ELSE <<>>

\* The body of "if include_stream:" for one stream: the records appended to
\* the playlist, or the exception that leaves generate_m3u_playlist.  A
\* record is its #EXTINF line (tags, title) and its URL line; directives are
\* the lines written between the two, and the code writes none.  A flat
\* list has no items(): the call raises AttributeError inside the try, and
\* the bare except calls it again.
EmitStream(a, stream, map) ==
    LET group_title == GroupTitle(a.categories, stream)
        tags == StreamTags(stream, group_title, a.no_stream_proxy, a.proxy_url,
                           a.include_channel_id, a.channel_id_tag)
        episodes_data == IF stream.content_type = "series"
                         THEN EpisodesData(map, stream) ELSE <<>>
    IN  IF episodes_data # <<>>
        THEN IF episodes_data[1].shape = "dict"
             THEN [raised |-> "",
                   records |-> EpisodeRecords(a, stream, tags,
                                   sorted_seasons(episodes_data[1].seasons), 1)]
             ELSE [raised |-> "AttributeError", records |-> <<>>]
        ELSE [raised |-> "",
              records |-> << [tags |-> tags, directives |-> <<>>,
                              title |-> stream.name,
                              url |-> ProxyStreamUrl(
                                  stream_url(stream, a.server_url, a.username, a.password),
                                  a.no_stream_proxy, a.proxy_url)] >>]

(***************************************************************************)
(* Episode resolver: xtream_api.fetch_series_episodes.  An upstream reply  *)
(* is what fetch_api_data returns for get_series_info: an error tuple, a   *)
(* JSON object with or without "episodes", or non-JSON text; or it raises. *)
(***************************************************************************)
NoEpisodes == [shape |-> "none", seasons |-> <<>>, episodes |-> <<>>]

\* bool(data["episodes"])
Truthy(payload) ==
    \/ payload.shape = "dict" /\ payload.seasons # <<>>
    \/ payload.shape = "list" /\ payload.episodes # <<>>

\* what fetch_series_episodes returns beside the series id
FetchSeriesEpisodesUnchecked(reply) ==
    IF reply.kind = "dict" /\ reply.episodes # <<>>
    THEN reply.episodes[1]
    ELSE NoEpisodes

fetch_series_episodes(reply) ==
    IF reply.kind = "dict" /\ reply.episodes # <<>> /\ Truthy(reply.episodes[1])
    THEN reply.episodes[1]
    ELSE NoEpisodes

(***************************************************************************)
(* The inputs the model draws from.                                        *)
(***************************************************************************)
Category(id, name) == [category_id |-> id, category_name |-> name]

Categories ==
    << Category("1", <<"N", "e", "w", "s">>), Category("2", <<"S", "p", "o", "r", "t", "s", " ", "H", "D">>),
       Category("3", <<"D", "r", "a", "m", "a">>), Category("4", <<"M", "o", "v", "i", "e", "s">>),
       Category("5", <<"S", "p", "o", "r", "t", "s">>),
       Category("6", <<"S", "p", "o", "r", "t", "s", " ", "N", "e", "w", "s">>) >>

Stream(kind, cat, name, sid, serid, icon, ext, epg) ==
    [content_type |-> kind, category_id |-> cat, name |-> name, stream_id |-> sid,
     series_id |-> serid, stream_icon |-> icon, container_extension |-> ext,
     epg_channel_id |-> epg, added |-> <<>>, size |-> <<>>]

S_CNN == Stream("live", "1", <<"C", "N", "N">>, <<7>>, <<>>, <<"h", "t", "t", "p", ":", "/", "/", "i", "/", "c">>, <<>>, <<"c", "n", "n">>)
S_ESPN == Stream("live", "2", <<"E", "S", "P", "N">>, <<12>>, <<>>, <<>>, <<>>, <<>>)
S_Film == [Stream("vod", "4", <<"F", "i", "l", "m">>, <<101>>, <<>>, <<>>, <<<<"m", "k", "v">>>>, <<>>)
             EXCEPT !.added = <<<<"1", "6", "7">>>>, !.size = <<<<"1", "0", "4">>>>]
S_Show == Stream("series", "3", <<"S", "h", "o", "w">>, <<>>, <<5>>, <<>>, <<>>, <<>>)
S_Cup == Stream("series", "2", <<"C", "u", "p">>, <<>>, <<6>>, <<"h", "t", "t", "p", ":", "/", "/", "i", "/", "u">>, <<>>, <<>>)
S_Lost == Stream("live", "9", <<"L", "o", "s", "t">>, <<3>>, <<>>, <<>>, <<>>, <<>>)
S_Golf == Stream("live", "5", <<"G", "o", "l", "f">>, <<21>>, <<>>, <<>>, <<>>, <<>>)
S_Desk == Stream("live", "6", <<"D", "e", "s", "k">>, <<22>>, <<>>, <<>>, <<>>, <<>>)

BaseStreamLists ==
    { <<S_CNN, S_Show, S_ESPN, S_Film>>,
      <<S_Show, S_Cup, S_Film, S_Lost>>,
      <<S_Golf, S_Desk, S_Lost, S_Cup>> }

Min(x, y) == IF x <= y THEN x ELSE y

StreamLists ==
    { SubSeq(l, 1, Min(MaxStreams, Len(l))) : l \in BaseStreamLists } \cup { <<>> }

\* the patterns of the filter lists: "News" is in one category name, "*-*"
\* matches the prefixed group titles only, "Sports" is in three category names
PatternPool == << <<"N", "e", "w", "s">>, <<"*", "-", "*">>, <<"S", "p", "o", "r", "t", "s">> >>

\* the filter lists: up to MaxPatterns patterns of the pool, in pool order
RECURSIVE AscendingFrom(_, _)
AscendingFrom(lo, n) ==
    IF n = 0 THEN {<<>>}
    ELSE {<<>>} \cup
         UNION { { <<i>> \o rest : rest \in AscendingFrom(i + 1, n - 1) } :
                 i \in lo..Len(PatternPool) }

GroupLists ==
    { [k \in 1..Len(ix) |-> PatternPool[ix[k]]] : ix \in AscendingFrom(1, MaxPatterns) }

Episode(id, num, title, ext, season) ==
    [id |-> id, episode_num |-> num, title |-> title, container_extension |-> ext,
     season |-> season, added |-> <<>>, size |-> <<>>]

E1 == [Episode(<<"e", "1">>, 1, <<"P", "i", "l", "o", "t">>, <<<<"m", "k", "v">>>>, <<1>>)
         EXCEPT !.added = <<<<"1", "6", "8">>>>, !.size = <<<<"5", "2">>>>]
E2 == Episode(<<"e", "2">>, 2, <<"T", "w", "o">>, <<>>, <<1>>)
E3 == Episode(<<"e", "3">>, 12, <<"T", "e", "n">>, <<<<"m", "p", "4">>>>, <<2>>)
EX == Episode(<<"e", "X">>, 1, <<"E", "p", " ", "X">>, <<<<"m", "p", "4">>>>, <<>>)

Season(num, episodes) == [season_num |-> num, episodes |-> episodes]
EpisodesDict(seasons) == [shape |-> "dict", seasons |-> seasons, episodes |-> <<>>]
EpisodesList(episodes) == [shape |-> "list", seasons |-> <<>>, episodes |-> episodes]

SeriesReply(kind, episodes) == [kind |-> kind, episodes |-> episodes]

SeriesReplies ==
    { SeriesReply("tuple", <<>>),
      SeriesReply("raise", <<>>),
      SeriesReply("str", <<>>),
      SeriesReply("dict", <<>>),
      SeriesReply("dict", <<EpisodesDict(<<>>)>>),
      SeriesReply("dict", <<EpisodesDict(<<Season(<<"1">>, <<E1>>)>>)>>),
      SeriesReply("dict", <<EpisodesDict(<<Season(<<"2">>, <<E3>>), Season(<<"1">>, <<E1, E2>>)>>)>>),
      SeriesReply("dict", <<EpisodesList(<<E1, E3>>)>>),
      SeriesReply("dict", <<EpisodesList(<<EX>>)>>) }

\* a pool twice as wide
EpisodeWorkersDoubled == 2 * 5

\* ThreadPoolExecutor(max_workers=5)
EpisodeWorkers == 5


(***************************************************************************)
(* generate_m3u_playlist.                                                  *)
(***************************************************************************)
M3uInit ==
    /\ m3u_args \in
         [categories : {Categories}, streams : StreamLists,
          wanted_groups : GroupLists, unwanted_groups : GroupLists,
          include_vod : BOOLEAN, no_stream_proxy : BOOLEAN,
          include_channel_id : {FALSE}, channel_id_tag : {<<"c", "h", "a", "n", "n", "e", "l", "-", "i", "d">>},
          server_url : {<<"h", "t", "t", "p", ":", "/", "/", "h", ":", "8", "0">>}, username : {<<"u">>}, password : {<<"p">>},
          proxy_url : {<<"h", "t", "t", "p", ":", "/", "/", "x">>}]
    /\ pc_m3u = "start"
    /\ lookups = <<>>
    /\ series_episodes_map = <<>>
    /\ processed_streams = 0
    /\ m3u_playlist = <<>>
    /\ included = <<>>
    /\ origin = <<>>

M3uIdle ==
    /\ m3u_args = [streams |-> <<>>]
    /\ pc_m3u = "idle"
    /\ lookups = <<>>
    /\ series_episodes_map = <<>>
    /\ processed_streams = 0
    /\ m3u_playlist = <<>>
    /\ included = <<>>
    /\ origin = <<>>

\* the series ids submitted to the executor, in stream order; reply keeps
\* what the upstream answered once the worker has returned, and rank the
\* place of the lookup in the order the as_completed loop recorded the
\* results in (0 until it is recorded)
RECURSIVE series_to_fetch(_, _)
series_to_fetch(a, i) ==
    IF i > Len(a.streams) THEN <<>>
    ELSE (IF a.streams[i].content_type = "series"
             /\ should_fetch(a.categories, a.streams[i], a.wanted_groups, a.unwanted_groups)
          THEN << [series_id |-> a.streams[i].series_id[1], status |-> "queued",
                   reply |-> <<>>, rank |-> 0] >>
          ELSE <<>>)
         \o series_to_fetch(a, i + 1)

\* Entry: the pre-filter and the submission of one lookup per kept series
SubmitLookups ==
    /\ pc_m3u = "start"
    /\ lookups' = IF m3u_args.include_vod THEN series_to_fetch(m3u_args, 1) ELSE <<>>
    /\ pc_m3u' = "running"
    /\ UNCHANGED <<m3u_args, series_episodes_map, processed_streams, m3u_playlist,
                   included, origin, beside_m3u>>

Running(ls) == {k \in 1..Len(ls) : ls[k].status = "running"}

\* A worker of the pool takes a queued lookup
StartLookup(k) ==
    /\ pc_m3u = "running"
    /\ lookups[k].status = "queued"
    /\ Cardinality(Running(lookups)) < EpisodeWorkers
    /\ lookups' = [lookups EXCEPT ![k].status = "running"]
    /\ UNCHANGED <<m3u_args, pc_m3u, series_episodes_map, processed_streams,
                   m3u_playlist, included, origin, beside_m3u>>

\* series_episodes_map[s_id] = episodes
MapWithReset(map, s_id, episodes) == [x \in {s_id} |-> episodes]

MapWith(map, s_id, episodes) ==
    [x \in (DOMAIN map) \cup {s_id} |-> IF x = s_id THEN episodes ELSE map[x]]

\* A worker returns from fetch_series_episodes: the future is done and holds
\* the answer, and the worker is free for a queued lookup
CompleteLookup(k, reply) ==
    /\ pc_m3u = "running"
    /\ lookups[k].status = "running"
    /\ lookups' = [lookups EXCEPT ![k].status = "done", ![k].reply = <<reply>>]
    /\ UNCHANGED <<m3u_args, pc_m3u, series_episodes_map, processed_streams,
                   m3u_playlist, included, origin, beside_m3u>>

Recorded(ls) == {k \in 1..Len(ls) : ls[k].rank > 0}

\* The thread of the generation, in "for future in as_completed(...)", takes
\* a finished future: "if episodes_data: series_episodes_map[s_id] = ..."
RecordLookup(k) ==
    /\ pc_m3u = "running"
    /\ lookups[k].status = "done"
    /\ lookups[k].rank = 0
    /\ lookups' = [lookups EXCEPT ![k].rank = 1 + Cardinality(Recorded(lookups))]
    /\ series_episodes_map' =
         LET episodes_data == fetch_series_episodes(lookups[k].reply[1])
         IN  IF episodes_data # NoEpisodes
             THEN MapWith(series_episodes_map, lookups[k].series_id, episodes_data)
             ELSE series_episodes_map
    /\ UNCHANGED <<m3u_args, pc_m3u, processed_streams, m3u_playlist, included, origin,
                   beside_m3u>>

\* the with block is left once the loop has been through every future
AllLookupsRecorded == \A k \in 1..Len(lookups) : lookups[k].rank > 0

\* One pass of "for stream in streams"
ProcessStream ==
    /\ pc_m3u = "running"
    /\ AllLookupsRecorded
    /\ processed_streams < Len(m3u_args.streams)
    /\ LET i == processed_streams + 1
           stream == m3u_args.streams[i]
           inc == include_stream(CategoryName(m3u_args.categories, stream),
                                 GroupTitle(m3u_args.categories, stream),
                                 m3u_args.wanted_groups, m3u_args.unwanted_groups)
           out == EmitStream(m3u_args, stream, series_episodes_map)
       IN  /\ processed_streams' = i
           /\ included' = Append(included, inc)
           /\ IF inc /\ out.raised # ""
              THEN /\ pc_m3u' = "raised"
                   /\ UNCHANGED <<m3u_playlist, origin>>
              ELSE /\ pc_m3u' = pc_m3u
                   /\ m3u_playlist' = m3u_playlist \o (IF inc THEN out.records ELSE <<>>)
                   /\ origin' = origin \o (IF inc THEN [r \in 1..Len(out.records) |-> i]
                                           ELSE <<>>)
    /\ UNCHANGED <<m3u_args, lookups, series_episodes_map, beside_m3u>>

\* return m3u_playlist
ReturnPlaylist ==
    /\ pc_m3u = "running"
    /\ AllLookupsRecorded
    /\ processed_streams = Len(m3u_args.streams)
    /\ pc_m3u' = "done"
    /\ UNCHANGED <<m3u_args, lookups, series_episodes_map, processed_streams,
                   m3u_playlist, included, origin, beside_m3u>>

NextPlaylist ==
    \/ SubmitLookups
    \/ \E k \in 1..Len(lookups) : StartLookup(k)
    \/ \E k \in 1..Len(lookups), reply \in SeriesReplies : CompleteLookup(k, reply)
    \/ \E k \in 1..Len(lookups) : RecordLookup(k)
    \/ ProcessStream
    \/ ReturnPlaylist


(***************************************************************************)
(* Catalog fetcher: xtream_api.fetch_categories_and_channels.              *)
(*                                                                         *)
(* An upstream reply is the outcome of the GET of one endpoint.  A list    *)
(* reply holds objects (the entries of the catalog), here told apart by    *)
(* the endpoint they came from and their place in its list.                *)
(***************************************************************************)
CatalogWorkers == 10

Item(src, n) == [src |-> src, n |-> n, content_type |-> ""]

ItemList(src, len) == [k \in 1..len |-> Item(src, k)]

Reply(kind, items) == [kind |-> kind, items |-> items]

\* what an endpoint can answer.  The two mandatory endpoints take every
\* kind of answer and every length of list; the optional ones one answer of
\* each outcome the merge tells apart (error tuple, raised, not a list, list)
EndpointReplies(name) ==
    IF name \in {"live_categories", "live_streams"}
    THEN { Reply("ssl_error", <<>>), Reply("request_exception", <<>>),
           Reply("json_object", <<>>), Reply("text", <<>>),
           Reply("other_exception", <<>>) }
         \cup { Reply("json_list", ItemList(name, len)) : len \in 0..MaxItems }
    ELSE { Reply("request_exception", <<>>), Reply("other_exception", <<>>),
           Reply("json_object", <<>>), Reply("json_list", ItemList(name, MaxItems)) }

Value(type, items, error, status) ==
    [type |-> type, items |-> items, error |-> error, status |-> status]

None == Value("none", <<>>, "", 0)

\* xtream_api.fetch_api_data: the parsed JSON, the text of a non-JSON body, or
\* an (error, 503) tuple; any other exception leaves it ("raise")
fetch_api_data(reply) ==
    CASE reply.kind = "ssl_error" -> Value("tuple", <<>>, "SSL Error", 503)
      [] reply.kind = "request_exception" -> Value("tuple", <<>>, "Request Exception", 503)
      [] reply.kind = "json_list" -> Value("list", reply.items, "", 0)
      [] reply.kind = "json_object" -> Value("dict", <<>>, "", 0)
      [] reply.kind = "text" -> Value("str", <<>>, "", 0)
      [] OTHER -> Value("raise", <<>>, "", 0)

\* xtream_api.fetch_api_endpoint: the data, or None when the fetch raised
fetch_api_endpoint(reply) ==
    IF fetch_api_data(reply).type = "raise" THEN None ELSE fetch_api_data(reply)

Endpoint(name, timeout) == [name |-> name, timeout |-> timeout]

\* an endpoint list that takes the stream lists on every route
ApiEndpointsAnyRoute(include_vod, endpoint) ==
    << Endpoint("live_categories", 60), Endpoint("live_streams", 180) >>
    \o (IF include_vod
        THEN << Endpoint("vod_categories", 60), Endpoint("series_categories", 60),
                Endpoint("vod_streams", 240), Endpoint("series", 240) >>
        ELSE <<>>)

\* the endpoint list of one fetch
api_endpoints(include_vod, endpoint) ==
    << Endpoint("live_categories", 60), Endpoint("live_streams", 180) >>
    \o (IF include_vod
        THEN << Endpoint("vod_categories", 60), Endpoint("series_categories", 60) >>
             \o (IF endpoint = "api.generate_m3u"
                 THEN << Endpoint("vod_streams", 240), Endpoint("series", 240) >>
                 ELSE <<>>)
        ELSE <<>>)

\* results.get(name)
ResultsGet(res, name) == IF name \in DOMAIN res THEN res[name] ELSE None

\* entry["content_type"] = kind, for every entry
Tagged(items, kind) == [k \in 1..Len(items) |-> [items[k] EXCEPT !.content_type = kind]]

Returned(has_data, categories, streams, error, status) ==
    [has_data |-> has_data, categories |-> categories, streams |-> streams,
     error |-> error, status |-> status]

\* the early returns on the two mandatory results: "" when there is none
MandatoryErrorCategoriesOnly(live_categories, live_streams) ==
    IF live_categories.type = "tuple"
    THEN [error |-> live_categories.error, status |-> live_categories.status]
    ELSE IF live_categories.type # "list"
         THEN [error |-> "Invalid Data Format", status |-> 500]
         ELSE [error |-> "", status |-> 0]

MandatoryError(live_categories, live_streams) ==
    IF live_categories.type = "tuple"
    THEN [error |-> live_categories.error, status |-> live_categories.status]
    ELSE IF live_streams.type = "tuple"
    THEN [error |-> live_streams.error, status |-> live_streams.status]
    ELSE IF live_categories.type # "list" \/ live_streams.type # "list"
         THEN [error |-> "Invalid Data Format", status |-> 500]
         ELSE [error |-> "", status |-> 0]

\* "if isinstance(x, list) and x:" tag and extend
Contribution(res, name, kind) ==
    IF ResultsGet(res, name).type = "list"
    THEN Tagged(ResultsGet(res, name).items, kind)
    ELSE <<>>

\* a fetch that gives up when any endpoint returned an error tuple
ProcessResultsStrict(res, include_vod) ==
    IF \E name \in DOMAIN res : res[name].type = "tuple"
    THEN Returned(FALSE, <<>>, <<>>, "Request Exception", 503)
    ELSE Returned(TRUE,
                  Contribution(res, "live_categories", "live"),
                  Contribution(res, "live_streams", "live"), "", 0)

\* a merge that takes the series before the vod entries
ProcessResultsSeriesFirst(res, include_vod) ==
    LET live_categories == ResultsGet(res, "live_categories")
        live_streams == ResultsGet(res, "live_streams")
        failed == MandatoryError(live_categories, live_streams)
    IN  IF failed.error # ""
        THEN Returned(FALSE, <<>>, <<>>, failed.error, failed.status)
        ELSE Returned(TRUE,
                 Tagged(live_categories.items, "live")
                    \o (IF include_vod
                        THEN Contribution(res, "series_categories", "series")
                             \o Contribution(res, "vod_categories", "vod")
                        ELSE <<>>),
                 Tagged(live_streams.items, "live")
                    \o (IF include_vod
                        THEN Contribution(res, "series", "series")
                             \o Contribution(res, "vod_streams", "vod")
                        ELSE <<>>),
                 "", 0)

\* What fetch_categories_and_channels returns once every future is collected
ProcessResults(res, include_vod) ==
    LET live_categories == ResultsGet(res, "live_categories")
        live_streams == ResultsGet(res, "live_streams")
        failed == MandatoryError(live_categories, live_streams)
    IN  IF failed.error # ""
        THEN Returned(FALSE, <<>>, <<>>, failed.error, failed.status)
        ELSE Returned(TRUE,
                 Tagged(live_categories.items, "live")
                    \o (IF include_vod
                        THEN Contribution(res, "vod_categories", "vod")
                             \o Contribution(res, "series_categories", "series")
                        ELSE <<>>),
                 Tagged(live_streams.items, "live")
                    \o (IF include_vod
                        THEN Contribution(res, "vod_streams", "vod")
                             \o Contribution(res, "series", "series")
                        ELSE <<>>),
                 "", 0)

FetchInit ==
    /\ fetch_args \in [include_vod : BOOLEAN,
                       endpoint : {"api.generate_m3u", "api.get_categories"}]
    /\ pc_fetch = "start"
    /\ futures = <<>>
    /\ future_result = <<>>
    /\ results = <<>>
    /\ fetch_return = Returned(FALSE, <<>>, <<>>, "", 0)

FetchIdle ==
    /\ fetch_args = [include_vod |-> FALSE, endpoint |-> ""]
    /\ pc_fetch = "idle"
    /\ futures = <<>>
    /\ future_result = <<>>
    /\ results = <<>>
    /\ fetch_return = Returned(FALSE, <<>>, <<>>, "", 0)

\* executor.submit for every endpoint: a worker thread is started for each
\* of the first max_workers
SubmitEndpoints ==
    /\ pc_fetch = "start"
    /\ LET eps == api_endpoints(fetch_args.include_vod, fetch_args.endpoint)
       IN  futures' = [name \in {eps[k].name : k \in 1..Len(eps)} |->
                         IF (CHOOSE k \in 1..Len(eps) : eps[k].name = name) <= CatalogWorkers
                         THEN "running" ELSE "queued"]
    /\ pc_fetch' = "fetching"
    /\ UNCHANGED <<fetch_args, future_result, results, fetch_return, beside_fetch>>

\* a pool that drops the requests still pending when one of them fails
CompleteEndpointCancelling(name, reply) ==
    /\ pc_fetch = "fetching"
    /\ name \in DOMAIN futures
    /\ futures[name] = "running"
    /\ futures' = IF fetch_api_endpoint(reply).type \in {"tuple", "none"}
                  THEN [n \in DOMAIN futures |-> "done"]
                  ELSE [futures EXCEPT ![name] = "done"]
    /\ future_result' = [n \in (DOMAIN future_result) \cup {name} |->
                           IF n = name THEN fetch_api_endpoint(reply)
                           ELSE future_result[n]]
    /\ UNCHANGED <<fetch_args, pc_fetch, results, fetch_return, beside_fetch>>

\* A worker thread returns from fetch_api_endpoint: its future is done and
\* holds (name, data); the freed worker takes a queued request, if any
CompleteEndpoint(name, reply) ==
    /\ pc_fetch = "fetching"
    /\ name \in DOMAIN futures
    /\ futures[name] = "running"
    /\ LET queued == {n \in DOMAIN futures : futures[n] = "queued"}
       IN  futures' = [n \in DOMAIN futures |->
                         IF n = name THEN "done"
                         ELSE IF queued # {} /\ n = CHOOSE q \in queued : TRUE
                              THEN "running" ELSE futures[n]]
    /\ future_result' = [n \in (DOMAIN future_result) \cup {name} |->
                           IF n = name THEN fetch_api_endpoint(reply)
                           ELSE future_result[n]]
    /\ UNCHANGED <<fetch_args, pc_fetch, results, fetch_return, beside_fetch>>

\* The thread of the fetch, in "for future in as_completed(...)", takes a
\* finished future and stores its data: results[name] = data
StoreResult(name) ==
    /\ pc_fetch = "fetching"
    /\ name \in DOMAIN future_result
    /\ name \notin DOMAIN results
    /\ results' = [n \in (DOMAIN results) \cup {name} |->
                     IF n = name THEN future_result[name] ELSE results[n]]
    /\ UNCHANGED <<fetch_args, pc_fetch, futures, future_result, fetch_return,
                   beside_fetch>>

\* After the with block: the mandatory check, the merge and the return
ReturnCatalog ==
    /\ pc_fetch = "fetching"
    /\ DOMAIN results = DOMAIN futures
    /\ fetch_return' = ProcessResults(results, fetch_args.include_vod)
    /\ pc_fetch' = "done"
    /\ UNCHANGED <<fetch_args, futures, future_result, results, beside_fetch>>

EndpointNames ==
    {"live_categories", "live_streams", "vod_categories", "series_categories",
     "vod_streams", "series"}

NextFetch ==
    \/ SubmitEndpoints
    \/ \E name \in EndpointNames : \E reply \in EndpointReplies(name) :
          CompleteEndpoint(name, reply)
    \/ \E name \in EndpointNames : StoreResult(name)
    \/ ReturnCatalog

\* The same fetch over fewer replies, for the claims about its progress: a
\* request fails in transport, raises, or returns its list.  Every request
\* ends, by its own timeout at the latest, and the thread of the fetch goes
\* on after the with block.
StragglerReplies(name) ==
    { Reply("request_exception", <<>>), Reply("other_exception", <<>>),
      Reply("json_list", ItemList(name, MaxItems)) }

NextFetchLive ==
    \/ SubmitEndpoints
    \/ \E name \in EndpointNames : \E reply \in StragglerReplies(name) :
          CompleteEndpoint(name, reply)
    \/ \E name \in EndpointNames : StoreResult(name)
    \/ ReturnCatalog

(***************************************************************************)
(* Streaming proxy: routes/proxy.py and utils/streaming.py.                *)
(*                                                                         *)
(* An outcome is what the GET of the original URL gives: a timeout, any    *)
(* other exception, or a response with a status, headers and a body that   *)
(* iter_content delivers chunk by chunk.  Optional headers are <<>> or     *)
(* <<value>>.                                                              *)
(***************************************************************************)
Headers(content_type, content_length, transfer_encoding) ==
    [content_type |-> content_type, content_length |-> content_length,
     transfer_encoding |-> transfer_encoding]

NoHeaders == Headers(<<>>, <<>>, <<>>)

Outcome(kind, status, headers, body) ==
    [kind |-> kind, status |-> status, headers |-> headers, body |-> body]

Chunks == { <<>>, <<1>>, <<2, 3>> }

RECURSIVE SeqsUpTo(_, _)
SeqsUpTo(S, n) ==
    IF n = 0 THEN {<<>>}
    ELSE SeqsUpTo(S, n - 1) \cup
         { Append(q, x) : q \in { p \in SeqsUpTo(S, n - 1) : Len(p) = n - 1 }, x \in S }

Bodies == SeqsUpTo(Chunks, MaxChunks)

ContentTypes == { <<>>, <<<<"i", "m", "a", "g", "e", "/", "p", "n", "g">>>>, <<<<"t", "e", "x", "t", "/", "h", "t", "m", "l">>>>, <<<<"v", "i", "d", "e", "o", "/", "M", "P", "2", "T">>>> }

UpstreamHeaders ==
    { Headers(ct, cl, te) : ct \in ContentTypes, cl \in {<<>>, <<"1000">>},
                            te \in {<<>>, <<"chunked">>} }

\* the body of a response that raise_for_status rejects is never read
Outcomes ==
    { Outcome("timeout", 0, NoHeaders, <<>>), Outcome("exception", 0, NoHeaders, <<>>) }
    \cup { Outcome("response", st, h, b) : st \in {200, 304}, h \in UpstreamHeaders, b \in Bodies }
    \cup { Outcome("response", st, h, <<>>) : st \in {404, 503}, h \in UpstreamHeaders }

OriginalUrls == { <<"h", "t", "t", "p", ":", "/", "/", "s", "/", "a", ".", "t", "s">>, <<"h", "t", "t", "p", ":", "/", "/", "s", "/", "a", ".", "m", "3", "u", "8">>, <<"h", "t", "t", "p", ":", "/", "/", "s", "/", "a">> }

\* requests.Response.raise_for_status: HTTPError for 4xx and 5xx
raise_for_status(status) == 400 <= status /\ status < 600

OutResponse(status, streaming, headers) ==
    [status |-> status, streaming |-> streaming, headers |-> headers]

\* generate_streaming_response: Content-Length, or chunked
StreamingHeadersStaleLength(up_headers, content_type) ==
    IF up_headers.content_length # <<>>
    THEN Headers(<<content_type>>, up_headers.content_length, <<>>)
    ELSE Headers(<<content_type>>, <<>>, <<"chunked">>)

streaming_headers(up_headers, content_type) ==
    IF up_headers.content_length # <<>> /\ up_headers.transfer_encoding = <<>>
    THEN Headers(<<content_type>>, up_headers.content_length, <<>>)
    ELSE Headers(<<content_type>>, <<>>, <<"chunked">>)

\* utils.streaming.generate_streaming_response: a 200 response over generate()
generate_streaming_response(up_headers, content_type) ==
    OutResponse(200, TRUE,
        streaming_headers(up_headers,
            IF content_type # <<>> THEN content_type
            ELSE GetOr(up_headers.content_type, <<"a", "p", "p", "l", "i", "c", "a", "t", "i", "o", "n", "/", "o", "c", "t", "e", "t", "-", "s", "t", "r", "e", "a", "m">>)))

\* routes.proxy.proxy_image
proxy_image(outcome) ==
    IF outcome.kind = "timeout" THEN OutResponse(504, FALSE, NoHeaders)
    ELSE IF outcome.kind = "exception" THEN OutResponse(500, FALSE, NoHeaders)
    ELSE IF raise_for_status(outcome.status)
         THEN OutResponse(outcome.status, FALSE, NoHeaders)
    ELSE IF ~StartsWith(GetOr(outcome.headers.content_type, <<>>), STR_image_slash)
         THEN OutResponse(415, FALSE, NoHeaders)
    ELSE generate_streaming_response(outcome.headers,
                                     GetOr(outcome.headers.content_type, <<>>))

\* the content type proxy_stream settles on
stream_content_type(up_headers, original_url) ==
    IF GetOr(up_headers.content_type, <<>>) # <<>> THEN up_headers.content_type[1]
    ELSE IF EndsWith(original_url, STR_ts) THEN <<"v", "i", "d", "e", "o", "/", "M", "P", "2", "T">>
    ELSE IF EndsWith(original_url, STR_m3u8) THEN <<"a", "p", "p", "l", "i", "c", "a", "t", "i", "o", "n", "/", "v", "n", "d", ".", "a", "p", "p", "l", "e", ".", "m", "p", "e", "g", "u", "r", "l">>
    ELSE <<"a", "p", "p", "l", "i", "c", "a", "t", "i", "o", "n", "/", "o", "c", "t", "e", "t", "-", "s", "t", "r", "e", "a", "m">>

\* routes.proxy.proxy_stream
proxy_stream(outcome, original_url) ==
    IF outcome.kind = "timeout" THEN OutResponse(504, FALSE, NoHeaders)
    ELSE IF outcome.kind = "exception" THEN OutResponse(500, FALSE, NoHeaders)
    ELSE IF raise_for_status(outcome.status)
         THEN OutResponse(outcome.status, FALSE, NoHeaders)
    ELSE generate_streaming_response(outcome.headers,
                                     stream_content_type(outcome.headers, original_url))

\* the except clauses of generate(): the exceptions that do not leave it
CaughtTransportOnly(kind) == kind \in {"ChunkedEncodingError", "ConnectionError"}

caught(kind) == kind \in {"ChunkedEncodingError", "ConnectionError", "Exception"}

StreamErrors == {"ChunkedEncodingError", "ConnectionError", "Exception"}

ProxyInit ==
    /\ proxy_request \in
         ([route : {"image"}, original_url : {<<"h", "t", "t", "p", ":", "/", "/", "s", "/", "i">>}]
          \cup [route : {"stream"}, original_url : OriginalUrls])
    /\ pc_proxy = "start"
    /\ upstream = [outcome |-> Outcome("none", 0, NoHeaders, <<>>), closed |-> FALSE]
    /\ outbound = [response |-> OutResponse(0, FALSE, NoHeaders), body |-> <<>>]
    /\ generator = [state |-> "none", read |-> 0, ending |-> "", raised |-> FALSE]

ProxyIdle ==
    /\ proxy_request = [route |-> "", original_url |-> <<>>]
    /\ pc_proxy = "idle"
    /\ upstream = [outcome |-> Outcome("none", 0, NoHeaders, <<>>), closed |-> FALSE]
    /\ outbound = [response |-> OutResponse(0, FALSE, NoHeaders), body |-> <<>>]
    /\ generator = [state |-> "none", read |-> 0, ending |-> "", raised |-> FALSE]

\* The route handler, from the GET of the original URL to the response it
\* returns.  No path of the handlers closes the upstream response; a
\* streaming response leaves that to generate().
HandleRequest(outcome) ==
    /\ pc_proxy = "start"
    /\ LET response == IF proxy_request.route = "image"
                       THEN proxy_image(outcome)
                       ELSE proxy_stream(outcome, proxy_request.original_url)
       IN  /\ outbound' = [response |-> response, body |-> <<>>]
           /\ pc_proxy' = IF response.streaming THEN "streaming" ELSE "responded"
           /\ generator' = IF response.streaming
                           THEN [generator EXCEPT !.state = "created"]
                           ELSE generator
    /\ upstream' = [outcome |-> outcome, closed |-> FALSE]
    /\ UNCHANGED <<proxy_request, beside_proxy>>

CanResume == generator.state \in {"created", "suspended", "reading"}

\* iter_content gives the next chunk: a non-empty chunk is yielded, an empty
\* one is skipped
ReadChunk ==
    /\ pc_proxy = "streaming"
    /\ CanResume
    /\ generator.read < Len(upstream.outcome.body)
    /\ LET chunk == upstream.outcome.body[generator.read + 1]
       IN  /\ generator' = [generator EXCEPT
                               !.read = generator.read + 1,
                               !.state = IF chunk # <<>> THEN "suspended" ELSE "reading"]
           /\ outbound' = [outbound EXCEPT !.body = outbound.body \o chunk]
    /\ UNCHANGED <<proxy_request, pc_proxy, upstream, beside_proxy>>

\* iter_content is exhausted: the loop ends, finally closes the response
EndOfBody ==
    /\ pc_proxy = "streaming"
    /\ CanResume
    /\ generator.read = Len(upstream.outcome.body)
    /\ generator' = [generator EXCEPT !.state = "finished", !.ending = "completed"]
    /\ upstream' = [upstream EXCEPT !.closed = TRUE]
    /\ pc_proxy' = "ended"
    /\ UNCHANGED <<proxy_request, outbound, beside_proxy>>

\* iter_content raises instead of giving the next chunk: an except clause
\* swallows the exception or it leaves the generator; finally closes the
\* response either way
ReadFails(kind) ==
    /\ pc_proxy = "streaming"
    /\ CanResume
    /\ generator' = [generator EXCEPT !.state = "finished", !.ending = kind,
                                      !.raised = ~caught(kind)]
    /\ upstream' = [upstream EXCEPT !.closed = TRUE]
    /\ pc_proxy' = "ended"
    /\ UNCHANGED <<proxy_request, outbound, beside_proxy>>

\* The consumer stops reading and the server closes the response iterable:
\* GeneratorExit at the yield runs finally; a generator that was never
\* started runs nothing
ConsumerStops ==
    /\ pc_proxy = "streaming"
    /\ generator.state \in {"created", "suspended"}
    /\ upstream' = [upstream EXCEPT !.closed = (generator.state = "suspended")]
    /\ generator' = [generator EXCEPT !.state = "finished", !.ending = "closed"]
    /\ pc_proxy' = "closed"
    /\ UNCHANGED <<proxy_request, outbound, beside_proxy>>

NextProxy ==
    \/ \E outcome \in Outcomes : HandleRequest(outcome)
    \/ ReadChunk
    \/ EndOfBody
    \/ \E kind \in StreamErrors : ReadFails(kind)
    \/ ConsumerStops

(***************************************************************************)
(* Pattern matcher: one call of helpers.group_matches on a label and a     *)
(* pattern drawn from the strings over a few characters (letters of both   *)
(* cases, the space, the two wildcards) and from the spec's examples.      *)
(***************************************************************************)
LabelChars == {"a", "B", " "}
PatternChars == {"A", "b", " ", "*", "?"}

Labels ==
    SeqsUpTo(LabelChars, MaxLabelLen)
    \cup { <<"S", "p", "o", "r", "t", "s", " ", "H", "D">>, <<"S", "p", "o", "r", "t", "s">>, <<"S", "e", "r", "i", "e", "s", " ", "-", " ", "A", "c", "t", "i", "o", "n">>, <<"[", "U", "K", "]", " ", "N", "e", "w", "s">>, <<"U", "K", " ", "N", "e", "w", "s">>,
           <<"4", "K">>, <<"É", "C", "O", "L", "E", " ", "Ñ">>, <<"K", "i", "d", "s", " ", "T", "V">> }

Patterns ==
    SeqsUpTo(PatternChars, MaxPatternLen)
    \cup { <<"s", "p", "o", "r", "t", " ", "h", "*">>, <<"S", "p", "o", "r", "t", "s">>, <<"a", "c", "t", "i", "o", "n">>, <<"[", "U", "K", "]", "*">>, <<"[", "u", "k", "]">>, <<"[", "!", "a", "-", "z", "]", "?">>,
           <<"[", "*">>, <<"é", "c", "o", "l", "e">>, <<"k", "i", "d", "s", " ", "t", "v">>, <<"[", "c", "-", "a", "!", "]", "?">> }

MatchInit ==
    /\ match_args \in [group_title : Labels, pattern : Patterns]
    /\ match_return = <<>>

MatchIdle ==
    /\ match_args = [group_title |-> <<>>, pattern |-> <<>>]
    /\ match_return = <<FALSE>>

\* the call returns
GroupMatchesReturns ==
    /\ match_return = <<>>
    /\ match_return' = <<group_matches(match_args.group_title, match_args.pattern)>>
    /\ UNCHANGED <<match_args, beside_match>>

NextMatch == GroupMatchesReturns

(***************************************************************************)
(* The /m3u route: app/routes/api.py generate_m3u.  A request is one call  *)
(* of the route function in a thread of its own, and all it works with are *)
(* the locals of that call.  The calls are interleaved at their upstream   *)
(* requests: the credential check, the catalog fetch, each episode lookup. *)
(***************************************************************************)
RequestIds == {1, 2}

AuthReply(kind, user_info, server_info) ==
    [kind |-> kind, user_info |-> user_info, server_info |-> server_info]

UserInfo == [username |-> <<"u">>, password |-> <<"p">>]
ServerInfo == [url |-> <<"h">>, port |-> <<"8", "0">>]

\* what player_api.php can answer: a transport failure, an answer that makes
\* fetch_api_data raise, or a JSON object with or without "user_info" and
\* "server_info"
AuthReplies ==
    { AuthReply("ssl_error", <<>>, <<>>),
      AuthReply("request_exception", <<>>, <<>>),
      AuthReply("other_exception", <<>>, <<>>),
      AuthReply("json_object", <<UserInfo>>, <<ServerInfo>>),
      AuthReply("json_object", <<UserInfo>>, <<>>),
      AuthReply("json_object", <<>>, <<ServerInfo>>) }

Validated(user_data, error, status) ==
    [raised |-> FALSE, user_data |-> user_data, error |-> error, status |-> status]

\* the exception of fetch_api_data leaves validate_xtream_credentials
ValidationRaised == [raised |-> TRUE, user_data |-> <<>>, error |-> "", status |-> 0]

\* a validation that only asks for "user_info"
ValidateUserInfoOnly(reply) ==
    LET data == fetch_api_data(Reply(reply.kind, <<>>))
    IN  IF data.type = "raise" THEN ValidationRaised
        ELSE IF data.type = "tuple" THEN Validated(<<>>, data.error, data.status)
        ELSE IF reply.user_info = <<>> THEN Validated(<<>>, "Invalid Response", 400)
        ELSE Validated(<<reply>>, "", 0)

\* xtream_api.validate_xtream_credentials: (user_data, error_json, error_code),
\* or the exception fetch_api_data did not catch
validate_xtream_credentials(reply) ==
    LET data == fetch_api_data(Reply(reply.kind, <<>>))
    IN  IF data.type = "raise" THEN ValidationRaised
        ELSE IF data.type = "tuple" THEN Validated(<<>>, data.error, data.status)
        ELSE IF reply.user_info = <<>> \/ reply.server_info = <<>>
             THEN Validated(<<>>, "Invalid Response", 400)
        ELSE Validated(<<reply>>, "", 0)

\* what fetch_categories_and_channels can return to the route: an error with
\* its status, or the categories and the streams (series among them only
\* when include_vod)
CatalogReturns(include_vod) ==
    { Returned(FALSE, <<>>, <<>>, "SSL Error", 503),
      Returned(FALSE, <<>>, <<>>, "Invalid Data Format", 500),
      Returned(TRUE, Categories, <<S_CNN>>, "", 0),
      Returned(TRUE, Categories, <<S_ESPN>>, "", 0) }
    \cup (IF include_vod
          THEN { Returned(TRUE, Categories, <<S_CNN, S_Show>>, "", 0),
                 Returned(TRUE, Categories, <<S_Show, S_Cup>>, "", 0) }
          ELSE {})

\* what get_series_info can answer to a request
LookupReplies ==
    { SeriesReply("tuple", <<>>),
      SeriesReply("dict", <<EpisodesDict(<<Season(<<"1">>, <<E1>>)>>)>>),
      SeriesReply("dict", <<EpisodesList(<<EX>>)>>) }

\* a response of the route: a JSON error, the playlist, or the 500 page of
\* an exception that left the route function
Response(status, mimetype, error, playlist) ==
    [status |-> status, mimetype |-> mimetype, error |-> error, playlist |-> playlist]

ErrorResponse(error, status) == Response(status, "application/json", error, <<>>)

InternalServerError == Response(500, "text/html", "Internal Server Error", <<>>)

\* the keyword arguments the route calls generate_m3u_playlist with
PlaylistArgs(params, user_data, catalog) ==
    [categories |-> catalog.categories, streams |-> catalog.streams,
     wanted_groups |-> <<>>, unwanted_groups |-> <<>>,
     include_vod |-> params.include_vod, no_stream_proxy |-> FALSE,
     include_channel_id |-> FALSE, channel_id_tag |-> <<"c", "h", "a", "n", "n", "e", "l", "-", "i", "d">>,
     server_url |-> <<"h", "t", "t", "p", ":", "/", "/">> \o user_data.server_info[1].url
                    \o <<":">> \o user_data.server_info[1].port,
     username |-> user_data.user_info[1].username,
     password |-> user_data.user_info[1].password,
     proxy_url |-> <<"h", "t", "t", "p", ":", "/", "/", "x">>]

\* "for stream in streams" of generate_m3u_playlist over a resolved map: the
\* records, and whether an exception ended the loop
RECURSIVE stream_loop(_, _, _, _)
stream_loop(a, map, i, acc) ==
    IF i > Len(a.streams) THEN [raised |-> FALSE, records |-> acc]
    ELSE LET stream == a.streams[i]
             inc == include_stream(CategoryName(a.categories, stream),
                                   GroupTitle(a.categories, stream),
                                   a.wanted_groups, a.unwanted_groups)
             out == EmitStream(a, stream, map)
         IN  IF ~inc THEN stream_loop(a, map, i + 1, acc)
             ELSE IF out.raised # "" THEN [raised |-> TRUE, records |-> acc]
             ELSE stream_loop(a, map, i + 1, acc \o out.records)

\* the other requests that are between their first and their last step
InFlight(reqs, r) ==
    { o \in (DOMAIN reqs) \ {r} : reqs[o].pc \in {"validated", "generating"} }

\* one upstream step of a request: what was asked, what came back, and the
\* other requests in flight at that moment
Step(reqs, r, name, reply) == [step |-> name, reply |-> reply, during |-> InFlight(reqs, r)]

\* a route that keeps the last catalog fetched by any request
CatalogCached(reqs, r, fetched) ==
    IF \E o \in (DOMAIN reqs) \ {r} : reqs[o].catalog # <<>>
    THEN reqs[CHOOSE o \in (DOMAIN reqs) \ {r} : reqs[o].catalog # <<>>].catalog[1]
    ELSE fetched

\* the catalog request r goes on with: the locals its own call of
\* fetch_categories_and_channels returned, whatever the other requests hold
CatalogFor(reqs, r, fetched) == fetched

RequestInit ==
    m3u_requests \in
      [RequestIds ->
         [params : [complete : BOOLEAN, include_vod : BOOLEAN],
          pc : {"received"}, user_data : {<<>>}, catalog : {<<>>},
          pending : {<<>>}, episodes_map : {<<>>}, received : {<<>>},
          response : {<<>>}]]

RequestIdle == m3u_requests = <<>>

\* get_required_params finds url, username or password missing
RejectParams(r) ==
    /\ m3u_requests[r].pc = "received"
    /\ ~m3u_requests[r].params.complete
    /\ m3u_requests' = [m3u_requests EXCEPT
           ![r].pc = "responded",
           ![r].response = <<ErrorResponse("Missing Parameters", 400)>>]
    /\ UNCHANGED beside_request

\* validate_xtream_credentials and the "if error_json:" after it; an
\* exception of the validation leaves the route and gives the 500 page
ValidateCredentials(r, reply) ==
    /\ m3u_requests[r].pc = "received"
    /\ m3u_requests[r].params.complete
    /\ LET v == validate_xtream_credentials(reply)
           got == Append(m3u_requests[r].received,
                         Step(m3u_requests, r, "player_api", reply))
       IN  m3u_requests' =
             IF v.raised
             THEN [m3u_requests EXCEPT
                      ![r].received = got, ![r].pc = "responded",
                      ![r].response = <<InternalServerError>>]
             ELSE IF v.error # ""
             THEN [m3u_requests EXCEPT
                      ![r].received = got, ![r].pc = "responded",
                      ![r].response = <<ErrorResponse(v.error, v.status)>>]
             ELSE [m3u_requests EXCEPT
                      ![r].received = got, ![r].pc = "validated",
                      ![r].user_data = v.user_data]
    /\ UNCHANGED beside_request

\* fetch_categories_and_channels, the "if error_json:" after it, the
\* subscripts of user_data, and the submission of the episode lookups
FetchCatalog(r, fetched) ==
    /\ m3u_requests[r].pc = "validated"
    /\ LET q == m3u_requests[r]
           got == Append(q.received, Step(m3u_requests, r, "catalog", fetched))
           catalog == CatalogFor(m3u_requests, r, fetched)
       IN  m3u_requests' =
             IF ~catalog.has_data
             THEN [m3u_requests EXCEPT
                      ![r].received = got, ![r].pc = "responded",
                      ![r].response = <<ErrorResponse(catalog.error, catalog.status)>>]
             ELSE IF \/ q.user_data[1].kind # "json_object"
                     \/ q.user_data[1].user_info = <<>>
                     \/ q.user_data[1].server_info = <<>>
             THEN [m3u_requests EXCEPT
                      ![r].received = got, ![r].pc = "responded",
                      ![r].response = <<InternalServerError>>]
             ELSE LET a == PlaylistArgs(q.params, q.user_data[1], catalog)
                      submitted == IF a.include_vod THEN series_to_fetch(a, 1) ELSE <<>>
                  IN  [m3u_requests EXCEPT
                          ![r].received = got, ![r].pc = "generating",
                          ![r].catalog = <<catalog>>,
                          ![r].pending = [k \in 1..Len(submitted) |->
                                            [series_id |-> submitted[k].series_id,
                                             reply |-> <<>>, recorded |-> FALSE]]]
    /\ UNCHANGED beside_request

\* the answer of get_series_info to the lookup of one series
Answer(series_id, reply) == [series_id |-> series_id, answer |-> reply]

\* a worker of the request returns from fetch_series_episodes: the future of
\* that series is done and holds the answer, whichever was submitted first
LookupEpisodes(r, k, reply) ==
    /\ m3u_requests[r].pc = "generating"
    /\ k \in 1..Len(m3u_requests[r].pending)
    /\ m3u_requests[r].pending[k].reply = <<>>
    /\ LET q == m3u_requests[r]
       IN  m3u_requests' = [m3u_requests EXCEPT
             ![r].received = Append(q.received,
                                    Step(m3u_requests, r, "get_series_info",
                                         Answer(q.pending[k].series_id, reply))),
             ![r].pending[k].reply = <<reply>>]
    /\ UNCHANGED beside_request

\* the as_completed loop of the request takes a finished future:
\* "if episodes: series_episodes_map[s_id] = episodes"
RecordEpisodes(r, k) ==
    /\ m3u_requests[r].pc = "generating"
    /\ k \in 1..Len(m3u_requests[r].pending)
    /\ m3u_requests[r].pending[k].reply # <<>>
    /\ ~m3u_requests[r].pending[k].recorded
    /\ LET q == m3u_requests[r]
           episodes == fetch_series_episodes(q.pending[k].reply[1])
       IN  m3u_requests' = [m3u_requests EXCEPT
             ![r].pending[k].recorded = TRUE,
             ![r].episodes_map =
                 IF episodes # NoEpisodes
                 THEN MapWith(q.episodes_map, q.pending[k].series_id, episodes)
                 ELSE q.episodes_map]
    /\ UNCHANGED beside_request

\* the stream loop of generate_m3u_playlist and the Response of the route
ReturnResponse(r) ==
    /\ m3u_requests[r].pc = "generating"
    /\ \A k \in 1..Len(m3u_requests[r].pending) : m3u_requests[r].pending[k].recorded
    /\ LET q == m3u_requests[r]
           out == stream_loop(PlaylistArgs(q.params, q.user_data[1], q.catalog[1]),
                              q.episodes_map, 1, <<>>)
       IN  m3u_requests' = [m3u_requests EXCEPT
             ![r].pc = "responded",
             ![r].response = IF out.raised THEN <<InternalServerError>>
                             ELSE <<Response(200, "audio/x-scpls", "", <<out.records>>)>>]
    /\ UNCHANGED beside_request

NextRequest ==
    \/ \E r \in RequestIds : RejectParams(r)
    \/ \E r \in RequestIds, reply \in AuthReplies : ValidateCredentials(r, reply)
    \/ \E r \in RequestIds :
          \E fetched \in CatalogReturns(m3u_requests[r].params.include_vod) :
             FetchCatalog(r, fetched)
    \/ \E r \in RequestIds :
          \E k \in 1..Len(m3u_requests[r].pending), reply \in LookupReplies :
             LookupEpisodes(r, k, reply)
    \/ \E r \in RequestIds :
          \E k \in 1..Len(m3u_requests[r].pending) : RecordEpisodes(r, k)
    \/ \E r \in RequestIds : ReturnResponse(r)

(***************************************************************************)
(* One /m3u request end to end: the catalog fetch, then the call of        *)
(* generate_m3u_playlist on what it returned (api.py generate_m3u), with a *)
(* catalog of more series than the episode pool has workers.               *)
(***************************************************************************)
\* the entries of the catalog as the synthesizer reads them
CatalogCategory(item) == Category("1", <<"G">> \o IntToStr(item.n))

CatalogStream(item) ==
    Stream(item.content_type, "1", <<"N">> \o IntToStr(item.n),
           IF item.content_type = "series" THEN <<>> ELSE <<item.n>>,
           IF item.content_type = "series" THEN <<item.n>> ELSE <<>>,
           <<>>, <<>>, <<>>)

\* every endpoint returns its list, the series endpoint may fail instead;
\* the series list is one longer than the episode pool has workers
PipelineReplies(name) ==
    { Reply("json_list", ItemList(name, IF name = "series" THEN 6 ELSE 1)) }
    \cup (IF name = "series" THEN { Reply("request_exception", <<>>) } ELSE {})

PipelineLookupReplies ==
    { SeriesReply("dict", <<EpisodesDict(<<Season(<<"1">>, <<E1>>)>>)>>) }

\* generate_m3u once the fetch has returned data: the call of
\* generate_m3u_playlist with the categories and streams fetched
CallGeneratePlaylist ==
    /\ pc_fetch = "done"
    /\ fetch_args.endpoint = "api.generate_m3u"
    /\ fetch_return.has_data
    /\ pc_m3u = "idle"
    /\ m3u_args' =
         [categories |-> [k \in 1..Len(fetch_return.categories) |->
                             CatalogCategory(fetch_return.categories[k])],
          streams |-> [k \in 1..Len(fetch_return.streams) |->
                          CatalogStream(fetch_return.streams[k])],
          wanted_groups |-> <<>>, unwanted_groups |-> <<>>,
          include_vod |-> fetch_args.include_vod, no_stream_proxy |-> TRUE,
          include_channel_id |-> FALSE, channel_id_tag |-> <<"c", "h", "a", "n", "n", "e", "l", "-", "i", "d">>,
          server_url |-> <<"h", "t", "t", "p", ":", "/", "/", "h", ":", "8", "0">>, username |-> <<"u">>, password |-> <<"p">>,
          proxy_url |-> <<"h", "t", "t", "p", ":", "/", "/", "x">>]
    /\ pc_m3u' = "start"
    /\ UNCHANGED <<lookups, series_episodes_map, processed_streams, m3u_playlist,
                   included, origin, beside_m3u>>

NextPipeline ==
    \/ SubmitEndpoints
    \/ \E name \in EndpointNames : \E reply \in PipelineReplies(name) :
          CompleteEndpoint(name, reply)
    \/ \E name \in EndpointNames : StoreResult(name)
    \/ ReturnCatalog
    \/ CallGeneratePlaylist
    \/ SubmitLookups
    \/ \E k \in 1..Len(lookups) : StartLookup(k)
    \/ \E k \in 1..Len(lookups), reply \in PipelineLookupReplies : CompleteLookup(k, reply)
    \/ \E k \in 1..Len(lookups) : RecordLookup(k)
    \/ ProcessStream
    \/ ReturnPlaylist

(***************************************************************************)
(* One call of generate_m3u_playlist as a function of its inputs: the      *)
(* filter strings as the /m3u route receives them (parse_group_list), the  *)
(* categories and streams of a catalog, and the episodes map the lookups   *)
(* resolved.  What it returns is the playlist text.                        *)
(***************************************************************************)
\* str.split(sep): the pieces between the separators, empty pieces kept
RECURSIVE SplitOnFrom(_, _, _, _)
SplitOnFrom(s, sep, i, cur) ==
    IF i > Len(s) THEN <<cur>>
    ELSE IF s[i] = sep
         THEN <<cur>> \o SplitOnFrom(s, sep, i + 1, <<>>)
         ELSE SplitOnFrom(s, sep, i + 1, Append(cur, s[i]))

split_on(s, sep) == SplitOnFrom(s, sep, 1, <<>>)

\* str.strip(): leading and trailing whitespace removed
RECURSIVE lstrip(_)
lstrip(s) == IF s # <<>> /\ IsSpace(Head(s)) THEN lstrip(Tail(s)) ELSE s

RECURSIVE rstrip(_)
rstrip(s) ==
    IF s # <<>> /\ IsSpace(s[Len(s)]) THEN rstrip(SubSeq(s, 1, Len(s) - 1)) ELSE s

strip(s) == rstrip(lstrip(s))

\* a parser that drops the empty items
ParseGroupListNonEmpty(group_string) ==
    SelectSeq([i \in 1..Len(split_on(group_string, ",")) |->
                  strip(split_on(group_string, ",")[i])],
              LAMBDA g : g # <<>>)

\* [group.strip() for group in group_string.split(",")] if group_string else []
parse_group_list(group_string) ==
    IF group_string = <<>> THEN <<>>
    ELSE [i \in 1..Len(split_on(group_string, ",")) |->
             strip(split_on(group_string, ",")[i])]

\* " ".join(tags), each tag written key="value"
RECURSIVE JoinTags(_, _)
JoinTags(tags, i) ==
    IF i > Len(tags) THEN <<>>
    ELSE (IF i > 1 THEN <<" ">> ELSE <<>>)
         \o tags[i].key \o <<"=", "\"">> \o tags[i].value \o <<"\"">>
         \o JoinTags(tags, i + 1)

\* m3u_playlist += f'#EXTINF:0 {" ".join(tags)},{title}\n'; m3u_playlist += f"{url}\n"
RECURSIVE RecordLines(_, _)
RecordLines(records, i) ==
    IF i > Len(records) THEN <<>>
    ELSE <<"#", "E", "X", "T", "I", "N", "F", ":", "0", " ">> \o JoinTags(records[i].tags, 1) \o <<",">>
         \o records[i].title \o <<"\n">>
         \o records[i].url \o <<"\n">>
         \o RecordLines(records, i + 1)

\* a text without the header line
PlaylistTextNoHeader(records) == RecordLines(records, 1)

\* m3u_playlist = "#EXTM3U\n", then the two lines of each record
playlist_text(records) == <<"#", "E", "X", "T", "M", "3", "U">> \o <<"\n">> \o RecordLines(records, 1)

\* categories as fetch_categories_and_channels returns them: live, vod, series
KindCategory(kind, id, name) ==
    [category_id |-> id, category_name |-> name, content_type |-> kind]

CategoryLists ==
    { << KindCategory("live", "1", <<"N", "e", "w", "s">>), KindCategory("live", "2", <<"S", "p", "o", "r", "t", "s", " ", "H", "D">>),
         KindCategory("vod", "4", <<"M", "o", "v", "i", "e", "s">>), KindCategory("series", "3", <<"D", "r", "a", "m", "a">>) >>,
      << KindCategory("live", "1", <<"N", "e", "w", "s">>), KindCategory("vod", "1", <<"M", "o", "v", "i", "e", "s">>),
         KindCategory("series", "1", <<"D", "r", "a", "m", "a">>), KindCategory("series", "2", <<"C", "u", "p", "s">>) >> }

S_Film1 == [S_Film EXCEPT !.category_id = "1"]
S_Show1 == [S_Show EXCEPT !.category_id = "1"]

CatalogStreamLists ==
    { <<S_CNN, S_Show, S_Film>>,
      <<S_Film1, S_CNN, S_Show1>>,
      <<S_ESPN, S_Cup, S_Show>>,
      <<S_Show>> }

\* the comma-separated filters of a request
FilterStrings ==
    { <<>>, <<"N", "e", "w", "s", ",">>, <<"a", ",", ",", "b">>, <<" ", "D", "r", "a", "m", "a", " ", ",", " ", "M", "o", "v", "i", "e", "s">>, <<"S", "p", "o", "r", "t", "s">> }

\* the episodes the lookups resolved, seasons in the order upstream gave them
EpisodeMaps ==
    { <<>>,
      [s \in {5} |-> EpisodesDict(<< Season(<<"2">>, <<E3>>), Season(<<"x">>, <<EX>>),
                                     Season(<<"1">>, <<E1, E2>>), Season(<<"s">>, <<E2>>) >>)],
      [s \in {5, 6} |-> IF s = 5
                        THEN EpisodesDict(<< Season(<<"1", "0", "0", "0">>, <<E3>>), Season(<<"x">>, <<EX>>),
                                             Season(<<"2">>, <<E1>>) >>)
                        ELSE EpisodesDict(<< Season(<<"1", "0">>, <<E2, E1>>), Season(<<"9">>, <<E3>>) >>)],
      [s \in {5} |-> EpisodesDict(<< Season(<<"2">>, <<E3>>), Season(<<"²">>, <<EX>>),
                                     Season(<<"1">>, <<E1>>) >>)] }

GenerateInit ==
    /\ generate_args \in
         [categories : CategoryLists, streams : CatalogStreamLists,
          wanted_string : FilterStrings, unwanted_string : FilterStrings,
          no_stream_proxy : BOOLEAN, include_channel_id : BOOLEAN,
          channel_id_tag : {<<"c", "h", "a", "n", "n", "e", "l", "-", "i", "d">>},
          episodes : EpisodeMaps]
    /\ generate_return = <<>>

GenerateIdle ==
    /\ generate_args = <<>>
    /\ generate_return = <<>>

\* the arguments the route passes to generate_m3u_playlist
GenerateArgs(g) ==
    [categories |-> g.categories, streams |-> g.streams,
     wanted_groups |-> parse_group_list(g.wanted_string),
     unwanted_groups |-> parse_group_list(g.unwanted_string),
     include_vod |-> TRUE, no_stream_proxy |-> g.no_stream_proxy,
     include_channel_id |-> g.include_channel_id, channel_id_tag |-> g.channel_id_tag,
     server_url |-> <<"h", "t", "t", "p", ":", "/", "/", "h", ":", "8", "0">>, username |-> <<"u">>, password |-> <<"p">>,
     proxy_url |-> <<"h", "t", "t", "p", ":", "/", "/", "x">>]

\* generate_m3u_playlist returns the text, or an exception leaves it
GenerateReturns ==
    /\ generate_args # <<>>
    /\ generate_return = <<>>
    /\ LET out == stream_loop(GenerateArgs(generate_args), generate_args.episodes, 1, <<>>)
       IN  generate_return' =
             << [raised |-> out.raised,
                 records |-> IF out.raised THEN <<>> ELSE out.records,
                 text |-> IF out.raised THEN <<>> ELSE playlist_text(out.records)] >>
    /\ UNCHANGED <<generate_args, beside_generate>>

NextGenerate == GenerateReturns

(***************************************************************************)
(* Specifications: one per component, the others left idle.                *)
(***************************************************************************)
InitPlaylist == M3uInit /\ FetchIdle /\ ProxyIdle /\ MatchIdle /\ RequestIdle /\ GenerateIdle
SpecPlaylist == InitPlaylist /\ [][NextPlaylist]_vars

InitFetch == FetchInit /\ M3uIdle /\ ProxyIdle /\ MatchIdle /\ RequestIdle /\ GenerateIdle
SpecFetch == InitFetch /\ [][NextFetch]_vars
SpecFetchLive == InitFetch /\ [][NextFetchLive]_vars /\ WF_vars(NextFetchLive)

InitProxy == ProxyInit /\ M3uIdle /\ FetchIdle /\ MatchIdle /\ RequestIdle /\ GenerateIdle
SpecProxy == InitProxy /\ [][NextProxy]_vars

InitMatch == MatchInit /\ M3uIdle /\ FetchIdle /\ ProxyIdle /\ RequestIdle /\ GenerateIdle
SpecMatch == InitMatch /\ [][NextMatch]_vars

InitRequest == RequestInit /\ M3uIdle /\ FetchIdle /\ ProxyIdle /\ MatchIdle /\ GenerateIdle
SpecRequest == InitRequest /\ [][NextRequest]_vars

InitPipeline == FetchInit /\ M3uIdle /\ ProxyIdle /\ MatchIdle /\ RequestIdle /\ GenerateIdle
SpecPipeline == InitPipeline /\ [][NextPipeline]_vars

InitGenerate == GenerateInit /\ M3uIdle /\ FetchIdle /\ ProxyIdle /\ MatchIdle /\ RequestIdle
SpecGenerate == InitGenerate /\ [][NextGenerate]_vars

(***************************************************************************)
(* Claims about the playlist synthesizer (checked under SpecPlaylist).     *)
(***************************************************************************)
RecordsOf(i) == {r \in 1..Len(origin) : origin[r] = i}

\* the raw category name and the kind-prefixed group title of a stream
NamesOf(stream) ==
    LET raw == CategoryName(m3u_args.categories, stream)
    IN  { raw,
          CASE stream.content_type = "vod" -> STR_VodPrefix \o raw
            [] stream.content_type = "series" -> STR_SeriesPrefix \o raw
            [] OTHER -> raw }

SomePatternMatches(stream, groups) ==
    \E k \in 1..Len(groups) : \E n \in NamesOf(stream) : group_matches(n, groups[k])

PassesFilter(stream) ==
    IF m3u_args.wanted_groups # <<>>
    THEN SomePatternMatches(stream, m3u_args.wanted_groups)
    ELSE IF m3u_args.unwanted_groups # <<>>
         THEN ~SomePatternMatches(stream, m3u_args.unwanted_groups)
         ELSE TRUE

HasResolvedEpisodes(stream) ==
    /\ stream.content_type = "series"
    /\ stream.series_id # <<>>
    /\ stream.series_id[1] \in DOMAIN series_episodes_map

\* C1: every processed stream passes "if include_stream" iff, with a
\* non-empty wanted list, some wanted pattern matches its raw category name
\* or its kind-prefixed group title (the unwanted list being ignored), with
\* an empty wanted list and a non-empty unwanted list, no unwanted pattern
\* matches either name, and with both lists empty, always.  Records come only
\* from streams that pass, and in the returned playlist every stream that
\* passes and is not expanded into episodes has a record.
C1_FilterModes ==
    LET passes == [i \in 1..Len(m3u_args.streams) |-> PassesFilter(m3u_args.streams[i])]
    IN  /\ \A i \in 1..processed_streams : included[i] = passes[i]
        /\ \A r \in 1..Len(origin) : passes[origin[r]]
        /\ pc_m3u = "done" =>
              \A i \in 1..Len(m3u_args.streams) :
                  ~HasResolvedEpisodes(m3u_args.streams[i]) =>
                      ((RecordsOf(i) # {}) <=> passes[i])

\* C1 witness: a playlist was returned with both lists non-empty and two
\* wanted patterns; a stream that the first wanted pattern does not match,
\* the second does, and an unwanted pattern does too, is in it.
C1_Witness ==
    /\ pc_m3u = "done"
    /\ Len(m3u_args.wanted_groups) = 2
    /\ m3u_args.unwanted_groups # <<>>
    /\ \E i \in 1..Len(m3u_args.streams) :
          /\ ~SomePatternMatches(m3u_args.streams[i], <<m3u_args.wanted_groups[1]>>)
          /\ SomePatternMatches(m3u_args.streams[i], <<m3u_args.wanted_groups[2]>>)
          /\ SomePatternMatches(m3u_args.streams[i], m3u_args.unwanted_groups)
          /\ RecordsOf(i) # {}

\* a number or key padded with zeros on the left to two characters
Pad2(s) == IF Len(s) = 0 THEN <<"0", "0">> ELSE IF Len(s) = 1 THEN <<"0">> \o s ELSE s

\* the (season, episode) pairs of a resolved payload: a mapping's seasons, or
\* a flat list's episodes under their own season field (1 when absent)
PairsOf(payload) ==
    IF payload.shape = "dict"
    THEN { <<payload.seasons[s].season_num, payload.seasons[s].episodes[e]>> :
             <<s, e>> \in { p \in (1..Len(payload.seasons)) \X (1..2) :
                              p[2] <= Len(payload.seasons[p[1]].episodes) } }
    ELSE { <<IntToStr(GetOr(payload.episodes[e].season, 1)), payload.episodes[e]>> :
             e \in 1..Len(payload.episodes) }

TitleJoined(name, pair) ==
    name \o <<" ", "-", " ", "S">> \o Pad2(pair[1]) \o <<"E">> \o Pad2(IntToStr(pair[2].episode_num))
         \o <<" ", "-", " ">> \o pair[2].title

TitleSeparated(name, pair) ==
    name \o <<" ", "-", " ", "S">> \o Pad2(pair[1]) \o <<" ", "-", " ", "E">> \o Pad2(IntToStr(pair[2].episode_num))
         \o <<" ", "-", " ">> \o pair[2].title

\* <server>/series/<username>/<password>/<episode id>.<ext>, as emitted:
\* unchanged when proxying is disabled, behind the stream proxy otherwise
EpisodeMediaUrl(pair) ==
    LET direct == m3u_args.server_url \o <<"/", "s", "e", "r", "i", "e", "s", "/">> \o m3u_args.username \o <<"/">>
                    \o m3u_args.password \o <<"/">> \o pair[2].id \o <<".">>
                    \o GetOr(pair[2].container_extension, <<"m", "p", "4">>)
    IN  IF m3u_args.no_stream_proxy THEN direct
        ELSE m3u_args.proxy_url \o <<"/", "s", "t", "r", "e", "a", "m", "-", "p", "r", "o", "x", "y", "/">> \o encode_url(direct)

Expanded(i) ==
    /\ i <= processed_streams
    /\ included[i]
    /\ HasResolvedEpisodes(m3u_args.streams[i])

EntryOf(i) == series_episodes_map[m3u_args.streams[i].series_id[1]]

OneRecordPerPair(i, payload, Title(_, _)) ==
    /\ Cardinality(RecordsOf(i)) = Cardinality(PairsOf(payload))
    /\ \A pair \in PairsOf(payload) :
          Cardinality({ r \in RecordsOf(i) :
                          /\ m3u_playlist[r].title = Title(m3u_args.streams[i].name, pair)
                          /\ m3u_playlist[r].url = EpisodeMediaUrl(pair) }) = 1

\* C8 as stated: an included series with resolved episodes yields exactly one
\* record per (season, episode) pair, titled
\* "<name> - S<ss> - E<ee> - <title>", with the episode's series URL.
C8_Original_SeparatedTitle ==
    \A i \in 1..Len(m3u_args.streams) :
        Expanded(i) => OneRecordPerPair(i, EntryOf(i), TitleSeparated)

\* C8 amended: an included series whose resolved episodes are a mapping keyed
\* by season yields exactly one record per (season, episode) pair, titled
\* "<name> - S<ss>E<ee> - <title>" (no separator between the season and the
\* episode part), with the episode's series URL, in the playlist text built
\* so far.
C8_EpisodeExpansion ==
    \A i \in 1..Len(m3u_args.streams) :
        (Expanded(i) /\ EntryOf(i).shape = "dict")
            => OneRecordPerPair(i, EntryOf(i), TitleJoined)

\* C8 witness: the mapping {"1": [Pilot]} gave exactly one record,
\* "Show - S01E01 - Pilot".
C8_Witness ==
    /\ pc_m3u = "done"
    /\ \E i \in 1..Len(m3u_args.streams) :
          /\ Expanded(i)
          /\ EntryOf(i) = EpisodesDict(<<Season(<<"1">>, <<E1>>)>>)
          /\ Cardinality(RecordsOf(i)) = 1
          /\ \A r \in RecordsOf(i) : m3u_playlist[r].title = <<"S", "h", "o", "w", " ", "-", " ", "S", "0", "1", "E", "0", "1", " ", "-", " ", "P", "i", "l", "o", "t">>

\* C9: every episode record is named "<series name> - S<ss>E<ee> - <title>"
\* for an episode of its series, and its URL is that episode's
\* <server_url>/series/<username>/<password>/<episode id>.<extension>
\* (behind the stream proxy when proxying is enabled).
C9_EpisodeRecordFormat ==
    \A r \in 1..Len(origin) :
        HasResolvedEpisodes(m3u_args.streams[origin[r]]) =>
            \E pair \in PairsOf(EntryOf(origin[r])) :
                /\ m3u_playlist[r].title = TitleJoined(m3u_args.streams[origin[r]].name, pair)
                /\ m3u_playlist[r].url = EpisodeMediaUrl(pair)

\* C9 witness: the record of season 2, episode 12, with proxying disabled.
C9_Witness ==
    \E r \in 1..Len(origin) :
        /\ HasResolvedEpisodes(m3u_args.streams[origin[r]])
        /\ m3u_args.no_stream_proxy
        /\ m3u_playlist[r].title = <<"S", "h", "o", "w", " ", "-", " ", "S", "0", "2", "E", "1", "2", " ", "-", " ", "T", "e", "n">>
        /\ m3u_playlist[r].url = <<"h", "t", "t", "p", ":", "/", "/", "h", ":", "8", "0", "/", "s", "e", "r", "i", "e", "s", "/", "u", "/", "p", "/", "e", "3", ".", "m", "p", "4">>

\* C10: a series whose episodes payload is a flat list gets one record per
\* episode, under the episode's own season (1 when absent), and generation
\* does not fail.
C10_FlatListGrouped ==
    \A i \in 1..Len(m3u_args.streams) :
        (Expanded(i) /\ EntryOf(i).shape = "list")
            => (pc_m3u # "raised" /\ OneRecordPerPair(i, EntryOf(i), TitleJoined))

(***************************************************************************)
(* Claims about the catalog fetcher (checked under SpecFetch).             *)
(***************************************************************************)
LiveCategories == ResultsGet(results, "live_categories")
LiveStreams == ResultsGet(results, "live_streams")

IsList(value) == value.type = "list"

\* the request of the endpoint itself failed: fetch_api_data gave (error, 503)
RequestFailed(value) == value.type = "tuple"

NoCatalog(error, status) ==
    /\ ~fetch_return.has_data
    /\ fetch_return.categories = <<>>
    /\ fetch_return.streams = <<>>
    /\ fetch_return.error = error
    /\ fetch_return.status = status

\* C2 as stated: when the live_categories or the live_streams result is
\* absent or not a list, a failed request included, the fetch returns no
\* categories, no streams and the InvalidCatalogFormat error with status 500.
C2_Original_AlwaysInvalidFormat ==
    (pc_fetch = "done" /\ (~IsList(LiveCategories) \/ ~IsList(LiveStreams)))
        => NoCatalog("Invalid Data Format", 500)

\* C2 amended: when the live_categories or the live_streams result is absent
\* or not a list, the fetch returns no categories and no streams, and
\* reports: the error of the failed live_categories request with its status
\* 503; else the error of the failed live_streams request with its status
\* 503; else (no request failed: a result is absent, an object or text) the
\* InvalidCatalogFormat error with status 500.
C2_MandatoryEndpoints ==
    (pc_fetch = "done" /\ (~IsList(LiveCategories) \/ ~IsList(LiveStreams)))
        => IF RequestFailed(LiveCategories)
           THEN NoCatalog(LiveCategories.error, 503)
           ELSE IF RequestFailed(LiveStreams)
                THEN NoCatalog(LiveStreams.error, 503)
                ELSE NoCatalog("Invalid Data Format", 500)

\* C2 witness: live_categories is a list, the live_streams request failed
\* on SSL, and the fetch returned that error with 503.
C2_Witness ==
    /\ pc_fetch = "done"
    /\ IsList(LiveCategories)
    /\ RequestFailed(LiveStreams)
    /\ NoCatalog("SSL Error", 503)

OptionalEndpoints == {"vod_categories", "series_categories", "vod_streams", "series"}

EntriesFrom(name) ==
    { k \in 1..Len(fetch_return.categories) : fetch_return.categories[k].src = name }
    \cup { k \in 1..Len(fetch_return.streams) : fetch_return.streams[k].src = name }

\* C3: when both live endpoints returned lists, the fetch returns no error,
\* every live category and every live stream is in the aggregate (tagged
\* live), and an optional endpoint that failed or returned a non-list has no
\* entry in it.
C3_OptionalEndpointsBestEffort ==
    (pc_fetch = "done" /\ IsList(LiveCategories) /\ IsList(LiveStreams))
        => /\ fetch_return.has_data
           /\ fetch_return.error = ""
           /\ \A k \in 1..Len(LiveCategories.items) :
                 \E c \in 1..Len(fetch_return.categories) :
                    fetch_return.categories[c] =
                        [LiveCategories.items[k] EXCEPT !.content_type = "live"]
           /\ \A k \in 1..Len(LiveStreams.items) :
                 \E c \in 1..Len(fetch_return.streams) :
                    fetch_return.streams[c] =
                        [LiveStreams.items[k] EXCEPT !.content_type = "live"]
           /\ \A name \in OptionalEndpoints :
                 ~IsList(ResultsGet(results, name)) => EntriesFrom(name) = {}

\* C3 witness: the vod_streams request failed, live_streams gave a stream,
\* and the aggregate holds that stream.
C3_Witness ==
    /\ pc_fetch = "done"
    /\ RequestFailed(ResultsGet(results, "vod_streams"))
    /\ IsList(LiveCategories)
    /\ IsList(LiveStreams)
    /\ Len(LiveStreams.items) >= 1
    /\ fetch_return.error = ""
    /\ Len(fetch_return.streams) >= 1

(***************************************************************************)
(* Claims about the streaming proxy (checked under SpecProxy).             *)
(***************************************************************************)
RECURSIVE Flatten(_)
Flatten(chunks) ==
    IF chunks = <<>> THEN <<>> ELSE Head(chunks) \o Flatten(Tail(chunks))

Delivered == SubSeq(upstream.outcome.body, 1, generator.read)

\* C4: when reading the upstream body fails, the outbound body is exactly the
\* bytes delivered before the failure, in upstream order, and no exception
\* leaves the generator; when the body ends normally the outbound bytes are
\* the upstream bytes.
C4_MidStreamFailure ==
    /\ (pc_proxy = "ended" /\ generator.ending \in StreamErrors)
          => (outbound.body = Flatten(Delivered) /\ ~generator.raised)
    /\ (pc_proxy = "ended" /\ generator.ending = "completed")
          => (outbound.body = Flatten(upstream.outcome.body) /\ ~generator.raised)

\* C4 witness: a read failed with an exception that is neither a chunked
\* decode error nor a connection error after bytes 1, 2, 3 were sent.
C4_Witness ==
    /\ pc_proxy = "ended"
    /\ generator.ending = "Exception"
    /\ generator.read = 2
    /\ outbound.body = <<1, 2, 3>>

Terminal == pc_proxy \in {"responded", "ended", "closed"}

\* C5: in every terminal state of a proxy request that obtained an upstream
\* response, that response has been closed.
C5_UpstreamAlwaysClosed ==
    (Terminal /\ upstream.outcome.kind = "response") => upstream.closed

HasLength(headers) == headers.content_length # <<>>
HasEncoding(headers) == headers.transfer_encoding # <<>>

\* C6: a streaming response carries exactly one of Content-Length and
\* Transfer-Encoding: chunked; it carries the upstream Content-Length value
\* iff upstream has Content-Length and no Transfer-Encoding.
C6_LengthOrChunked ==
    outbound.response.streaming =>
        LET up == upstream.outcome.headers
            out == outbound.response.headers
        IN  /\ HasLength(out) <=> ~HasEncoding(out)
            /\ HasLength(out) <=> (HasLength(up) /\ ~HasEncoding(up))
            /\ HasLength(out) => out.content_length = up.content_length
            /\ HasEncoding(out) => out.transfer_encoding = <<"chunked">>

\* C6 witness: a stale Content-Length next to Transfer-Encoding upstream,
\* and a chunked response without Content-Length.
C6_Witness ==
    /\ outbound.response.streaming
    /\ HasLength(upstream.outcome.headers)
    /\ HasEncoding(upstream.outcome.headers)
    /\ ~HasLength(outbound.response.headers)
    /\ outbound.response.headers.transfer_encoding = <<"chunked">>

Answered == pc_proxy \notin {"idle", "start"}

IsImageType(headers) ==
    headers.content_type # <<>> /\ StartsWith(headers.content_type[1], <<"i", "m", "a", "g", "e", "/">>)

ErrorStatus(status) ==
    /\ outbound.response.status = status
    /\ ~outbound.response.streaming

Non2xx(status) == ~(200 <= status /\ status <= 299)

\* C7: a failure before streaming starts gives an error status and no
\* streaming response: 504 for a timeout, the upstream's own status for a
\* non-2xx upstream response, 415 for a Content-Type that is not image/* on
\* the image proxy, 500 for any other failure.
C7_PreStreamStatuses ==
    Answered =>
        LET o == upstream.outcome
        IN  /\ o.kind = "timeout" => ErrorStatus(504)
            /\ o.kind = "exception" => ErrorStatus(500)
            /\ (o.kind = "response" /\ Non2xx(o.status)) => ErrorStatus(o.status)
            /\ (o.kind = "response" /\ ~Non2xx(o.status)
                  /\ proxy_request.route = "image" /\ ~IsImageType(o.headers))
                  => ErrorStatus(415)


(***************************************************************************)
(* Claims about the episode resolver and the fallback record (checked      *)
(* under SpecPlaylist).                                                    *)
(***************************************************************************)
\* a lookup that gives no episodes: the request failed or raised, the body
\* was not a JSON object, or its episodes field is absent or empty
LookupFailed(reply) ==
    \/ reply.kind # "dict"
    \/ reply.episodes = <<>>
    \/ reply.episodes[1].seasons = <<>> /\ reply.episodes[1].episodes = <<>>

LookupsOf(stream) ==
    { k \in 1..Len(lookups) :
        stream.series_id # <<>> /\ lookups[k].series_id = stream.series_id[1] }

\* no lookup of the series was made, or the one made has failed
Unresolved(stream) ==
    /\ stream.content_type = "series"
    /\ \A k \in LookupsOf(stream) :
          lookups[k].rank > 0 /\ LookupFailed(lookups[k].reply[1])

\* <server>/series/<username>/<password>/<series id>.mp4, as emitted
FallbackUrl(stream) ==
    LET direct == m3u_args.server_url \o <<"/", "s", "e", "r", "i", "e", "s", "/">> \o m3u_args.username \o <<"/">>
                    \o m3u_args.password \o <<"/">> \o IntToStr(stream.series_id[1])
                    \o <<".", "m", "p", "4">>
    IN  IF m3u_args.no_stream_proxy THEN direct
        ELSE m3u_args.proxy_url \o <<"/", "s", "t", "r", "e", "a", "m", "-", "p", "r", "o", "x", "y", "/">> \o encode_url(direct)

\* C11: a series whose episode lookup failed, or was never made, has no
\* entry in the episode map and, once the stream loop has included it, exactly
\* one record, named after the series, whose media URL is the fallback URL of
\* its series id; a lookup that gave episodes has them in the map whatever
\* the other lookups gave, and no lookup result stops the others.
C11_FallbackRecord ==
    /\ \A i \in 1..Len(m3u_args.streams) :
          LET stream == m3u_args.streams[i]
          IN  (AllLookupsRecorded /\ pc_m3u # "start" /\ Unresolved(stream)) =>
                 /\ ~HasResolvedEpisodes(stream)
                 /\ (i <= processed_streams /\ included[i]) =>
                        /\ Cardinality(RecordsOf(i)) = 1
                        /\ \A r \in RecordsOf(i) :
                              /\ m3u_playlist[r].url = FallbackUrl(stream)
                              /\ m3u_playlist[r].title = stream.name
    /\ \A k \in 1..Len(lookups) :
          /\ (lookups[k].rank > 0 /\ LookupFailed(lookups[k].reply[1]))
                => lookups[k].series_id \notin DOMAIN series_episodes_map
          /\ (lookups[k].rank > 0 /\ ~LookupFailed(lookups[k].reply[1]))
                => /\ lookups[k].series_id \in DOMAIN series_episodes_map
                   /\ series_episodes_map[lookups[k].series_id]
                         = lookups[k].reply[1].episodes[1]
    /\ ~AllLookupsRecorded => pc_m3u = "running"

\* C11 witness: two series were looked up, the first lookup timed out and
\* the second gave episodes; the playlist was returned with the fallback
\* record of the first and the episode records of the second.
C11_Witness ==
    /\ pc_m3u = "done"
    /\ Len(lookups) = 2
    /\ lookups[1].reply[1].kind = "tuple"
    /\ ~LookupFailed(lookups[2].reply[1])
    /\ \E i, j \in 1..Len(m3u_args.streams) :
          /\ m3u_args.streams[i].series_id = <<lookups[1].series_id>>
          /\ m3u_args.streams[j].series_id = <<lookups[2].series_id>>
          /\ Cardinality(RecordsOf(i)) = 1
          /\ \A r \in RecordsOf(i) : m3u_playlist[r].url = FallbackUrl(m3u_args.streams[i])
          /\ Expanded(j)
          /\ RecordsOf(j) # {}


\* the stream or episode a record was emitted for carries both fields
CarriesAddedAndSize(item) == item.added # <<>> /\ item.size # <<>>

HasAddedAndExtByt(r, item) ==
    /\ \E t \in 1..Len(m3u_playlist[r].tags) :
          /\ m3u_playlist[r].tags[t].key = <<"a", "d", "d", "e", "d">>
          /\ m3u_playlist[r].tags[t].value = item.added[1]
    /\ \E d \in 1..Len(m3u_playlist[r].directives) :
          m3u_playlist[r].directives[d] = <<"#", "E", "X", "T", "B", "Y", "T", ":">> \o item.size[1]

\* C12: the record of every included vod stream, and of every series episode,
\* that carries 'added' and 'size' has an added="<added>" attribute on its
\* metadata line and a #EXTBYT:<size> directive.
C12_AddedAndExtByt ==
    \A r \in 1..Len(origin) :
        LET stream == m3u_args.streams[origin[r]]
        IN  /\ (stream.content_type = "vod" /\ CarriesAddedAndSize(stream))
                  => HasAddedAndExtByt(r, stream)
            /\ HasResolvedEpisodes(stream) =>
                  \A pair \in PairsOf(EntryOf(origin[r])) :
                      (m3u_playlist[r].url = EpisodeMediaUrl(pair)
                         /\ CarriesAddedAndSize(pair[2]))
                          => HasAddedAndExtByt(r, pair[2])


(***************************************************************************)
(* Claims about the two filter lists together (checked under SpecPlaylist).*)
(***************************************************************************)
NewsWantedSportsUnwanted ==
    /\ pc_m3u # "idle"
    /\ m3u_args.wanted_groups = << <<"N", "e", "w", "s">> >>
    /\ m3u_args.unwanted_groups = << <<"S", "p", "o", "r", "t", "s">> >>

InGroup(i, name) ==
    /\ i <= processed_streams
    /\ m3u_args.streams[i].content_type = "live"
    /\ CategoryName(m3u_args.categories, m3u_args.streams[i]) = name

\* C13 as stated: with wanted = ["News"] and unwanted = ["Sports"], a stream
\* whose group is "Sports" is included in the playlist.
C13_Original_SportsIncluded ==
    NewsWantedSportsUnwanted =>
        \A i \in 1..Len(m3u_args.streams) :
            InGroup(i, <<"S", "p", "o", "r", "t", "s">>) => (included[i] /\ RecordsOf(i) # {})

\* C13 amended: with wanted = ["News"] and unwanted = ["Sports"], a stream
\* whose group is "Sports" is left out of the playlist, since no wanted
\* pattern matches it; the unwanted list is ignored, so a stream whose group
\* is "Sports News" is included although "Sports" matches it.
C13_WantedTakesPriority ==
    NewsWantedSportsUnwanted =>
        \A i \in 1..Len(m3u_args.streams) :
            /\ InGroup(i, <<"S", "p", "o", "r", "t", "s">>) => (~included[i] /\ RecordsOf(i) = {})
            /\ InGroup(i, <<"S", "p", "o", "r", "t", "s", " ", "N", "e", "w", "s">>) => (included[i] /\ RecordsOf(i) # {})

\* C13 witness: the playlist was returned for these two lists, without the
\* "Sports" stream and with the "Sports News" stream.
C13_Witness ==
    /\ NewsWantedSportsUnwanted
    /\ pc_m3u = "done"
    /\ \E i, j \in 1..Len(m3u_args.streams) :
          /\ InGroup(i, <<"S", "p", "o", "r", "t", "s">>) /\ RecordsOf(i) = {}
          /\ InGroup(j, <<"S", "p", "o", "r", "t", "s", " ", "N", "e", "w", "s">>) /\ RecordsOf(j) # {}


(***************************************************************************)
(* Claims about the pattern matcher (checked under SpecMatch).             *)
(***************************************************************************)
MatchReturned == match_return # <<>> /\ match_args.group_title \in Labels

\* sub occurs in s at some offset
OccursIn(sub, s) ==
    \E k \in 0..Len(s) :
        /\ k + Len(sub) <= Len(s)
        /\ \A j \in 1..Len(sub) : s[k + j] = sub[j]

Plain(pattern) == \A j \in 1..Len(pattern) : pattern[j] \notin {" ", "*", "?"}

\* C14: for a pattern with no space, no '*' and no '?', group_matches is true
\* iff the lower-cased pattern is a substring of the lower-cased label.
C14_PlainSubstring ==
    (MatchReturned /\ Plain(match_args.pattern)) =>
        (match_return[1] <=> OccursIn(lower(match_args.pattern), lower(match_args.group_title)))

\* C14 witness: "action" is found in "Series - Action".
C14_Witness ==
    /\ MatchReturned
    /\ match_args.group_title = <<"S", "e", "r", "i", "e", "s", " ", "-", " ", "A", "c", "t", "i", "o", "n">>
    /\ match_args.pattern = <<"a", "c", "t", "i", "o", "n">>
    /\ match_return = <<TRUE>>

\* the positions where a whitespace-separated token starts, and the token
\* that starts there
TokenStarts(s) ==
    { i \in 1..Len(s) : ~IsSpace(s[i]) /\ (i = 1 \/ IsSpace(s[i - 1])) }

TokenEnd(s, i) ==
    CHOOSE e \in i..Len(s) :
        /\ \A j \in i..e : ~IsSpace(s[j])
        /\ (e = Len(s) \/ IsSpace(s[e + 1]))

\* token number n of s, counted from 1
TokenAt(s, n) ==
    LET i == CHOOSE x \in TokenStarts(s) :
                 Cardinality({ y \in TokenStarts(s) : y < x }) = n - 1
    IN  SubSeq(s, i, TokenEnd(s, i))

TokenCount(s) == Cardinality(TokenStarts(s))

IsGlob(token) == \E j \in 1..Len(token) : token[j] \in {"*", "?"}

TokenMatches(label_token, pattern_token) ==
    IF IsGlob(pattern_token) THEN fnmatch(label_token, pattern_token)
    ELSE OccursIn(pattern_token, label_token)

PositionalMatch(label, pattern) ==
    /\ TokenCount(label) >= TokenCount(pattern)
    /\ \A n \in 1..TokenCount(pattern) :
          TokenMatches(TokenAt(label, n), TokenAt(pattern, n))

\* C15: for a pattern that contains a space, group_matches is true iff the
\* label has at least as many whitespace-separated tokens as the pattern and
\* every pattern token matches the label token at its own position (a glob
\* match when the token has '*' or '?', a substring test otherwise), both
\* taken in lower case; "sport h*" matches "Sports HD" and not "Sports".
C15_PositionalTokens ==
    (MatchReturned /\ \E j \in 1..Len(match_args.pattern) : match_args.pattern[j] = " ") =>
        (match_return[1] <=>
            PositionalMatch(lower(match_args.group_title), lower(match_args.pattern)))

\* C15 witness: group_matches("Sports HD", "sport h*") returned true.
C15_Witness ==
    /\ MatchReturned
    /\ match_args.group_title = <<"S", "p", "o", "r", "t", "s", " ", "H", "D">>
    /\ match_args.pattern = <<"s", "p", "o", "r", "t", " ", "h", "*">>
    /\ match_return = <<TRUE>>


(***************************************************************************)
(* Claims about the order the episode lookups complete in (checked under  *)
(* SpecPlaylist).                                                          *)
(***************************************************************************)
\* the answer each series got, whatever the order the answers came in
AnswerOf(series_id) ==
    lookups[CHOOSE k \in 1..Len(lookups) : lookups[k].series_id = series_id].reply[1]

AnsweredWithEpisodes ==
    { lookups[k].series_id : k \in { j \in 1..Len(lookups) :
                                       ~LookupFailed(lookups[j].reply[1]) } }

MapOfAnswers == [sid \in AnsweredWithEpisodes |-> AnswerOf(sid).episodes[1]]

\* the run of the stream loop over that map: the records, and whether an
\* exception ended it
RECURSIVE RunFrom(_, _)
RunFrom(i, acc) ==
    IF i > Len(m3u_args.streams) THEN [records |-> acc, raised |-> FALSE]
    ELSE LET stream == m3u_args.streams[i]
             out == EmitStream(m3u_args, stream, MapOfAnswers)
         IN  IF ~PassesFilter(stream) THEN RunFrom(i + 1, acc)
             ELSE IF out.raised # "" THEN [records |-> acc, raised |-> TRUE]
             ELSE RunFrom(i + 1, acc \o out.records)

Finished == pc_m3u \in {"done", "raised"}

\* C16: the outcome of a generation (the playlist returned, or the exception
\* raised) is determined by its arguments and by the answer each series'
\* lookup got: it is the same for every order the lookups complete in.
C16_OrderIndependent ==
    Finished =>
        LET run == RunFrom(1, <<>>)
        IN  /\ (pc_m3u = "raised") = run.raised
            /\ m3u_playlist = run.records

\* C16 witness: two lookups gave episodes, the second submitted was recorded
\* first, and the playlist was returned with the records of both series.
C16_Witness ==
    /\ pc_m3u = "done"
    /\ Len(lookups) = 2
    /\ lookups[2].rank = 1
    /\ lookups[1].rank = 2
    /\ AnsweredWithEpisodes = {lookups[1].series_id, lookups[2].series_id}
    /\ \E i, j \in 1..Len(m3u_args.streams) :
          i # j /\ Expanded(i) /\ Expanded(j) /\ RecordsOf(i) # {} /\ RecordsOf(j) # {}


(***************************************************************************)
(* Claims about the proxy form of the URLs (checked under SpecPlaylist).   *)
(***************************************************************************)
\* percent-decoding, as the proxy routes undo the encoding
PercentCode(a, b) ==
    CASE <<a, b>> = <<"3", "A">> -> ":"
      [] <<a, b>> = <<"2", "F">> -> "/"
      [] <<a, b>> = <<"2", "0">> -> " "
      [] <<a, b>> = <<"3", "F">> -> "?"
      [] <<a, b>> = <<"2", "A">> -> "*"
      [] <<a, b>> = <<"2", "5">> -> "%"
      [] OTHER -> "#"

RECURSIVE Unquote(_)
Unquote(s) ==
    IF s = <<>> THEN <<>>
    ELSE IF s[1] = "%" /\ Len(s) >= 3
         THEN <<PercentCode(s[2], s[3])>> \o Unquote(SubSeq(s, 4, Len(s)))
         ELSE <<s[1]>> \o Unquote(Tail(s))

\* url is <proxy_base><route><percent-encoded original>
ProxyFormOf(url, route, original) ==
    LET prefix == m3u_args.proxy_url \o route
        encoded == SubSeq(url, Len(prefix) + 1, Len(url))
    IN  /\ Len(url) > Len(prefix)
        /\ SubSeq(url, 1, Len(prefix)) = prefix
        /\ \A j \in 1..Len(encoded) : encoded[j] \notin {":", "/", " ", "?"}
        /\ Unquote(encoded) = original

\* the upstream URLs the records of a stream may carry
UpstreamBase(kind) ==
    m3u_args.server_url \o <<"/">> \o kind \o <<"/">> \o m3u_args.username \o <<"/">>
        \o m3u_args.password \o <<"/">>

UpstreamUrls(stream) ==
    IF stream.content_type = "live"
    THEN { UpstreamBase(<<"l", "i", "v", "e">>) \o IntToStr(stream.stream_id[1]) \o <<".", "t", "s">> }
    ELSE IF stream.content_type = "vod"
    THEN { UpstreamBase(<<"m", "o", "v", "i", "e">>) \o IntToStr(stream.stream_id[1]) \o <<".">>
             \o GetOr(stream.container_extension, <<"m", "p", "4">>) }
    ELSE IF HasResolvedEpisodes(stream)
    THEN { UpstreamBase(<<"s", "e", "r", "i", "e", "s">>) \o pair[2].id \o <<".">>
             \o GetOr(pair[2].container_extension, <<"m", "p", "4">>) :
           pair \in PairsOf(series_episodes_map[stream.series_id[1]]) }
    ELSE { UpstreamBase(<<"s", "e", "r", "i", "e", "s">>) \o IntToStr(stream.series_id[1]) \o <<".", "m", "p", "4">> }

LogoOf(r) ==
    m3u_playlist[r].tags[CHOOSE t \in 1..Len(m3u_playlist[r].tags) :
                            m3u_playlist[r].tags[t].key = <<"t", "v", "g", "-", "l", "o", "g", "o">>].value

\* C18: for every record, with proxying enabled the media URL is
\* <proxy_base>/stream-proxy/<percent-encoded upstream URL> and a non-empty
\* logo is <proxy_base>/image-proxy/<percent-encoded logo URL>; with proxying
\* disabled both are the upstream URLs unchanged; the encoded part is the
\* upstream URL itself, never a URL already in proxy form.
C18_ProxyRewrite ==
    \A r \in 1..Len(origin) :
        LET stream == m3u_args.streams[origin[r]]
            url == m3u_playlist[r].url
        IN  IF m3u_args.no_stream_proxy
            THEN /\ url \in UpstreamUrls(stream)
                 /\ LogoOf(r) = stream.stream_icon
            ELSE /\ \E original \in UpstreamUrls(stream) :
                        ProxyFormOf(url, <<"/", "s", "t", "r", "e", "a", "m", "-", "p", "r", "o", "x", "y", "/">>, original)
                 /\ ~\E original \in UpstreamUrls(stream) :
                        ProxyFormOf(url, <<"/", "s", "t", "r", "e", "a", "m", "-", "p", "r", "o", "x", "y", "/">>,
                            m3u_args.proxy_url \o <<"/", "s", "t", "r", "e", "a", "m", "-", "p", "r", "o", "x", "y", "/">> \o encode_url(original))
                 /\ IF stream.stream_icon = <<>> THEN LogoOf(r) = <<>>
                    ELSE ProxyFormOf(LogoOf(r), <<"/", "i", "m", "a", "g", "e", "-", "p", "r", "o", "x", "y", "/">>, stream.stream_icon)

\* C18 witness: with proxying enabled, the record of live stream 7 carries
\* both URLs in proxy form.
C18_Witness ==
    /\ ~m3u_args.no_stream_proxy
    /\ \E r \in 1..Len(origin) :
          /\ m3u_playlist[r].url = <<"h", "t", "t", "p", ":", "/", "/", "x", "/", "s", "t", "r", "e", "a", "m", "-", "p", "r", "o", "x", "y", "/", "h", "t", "t", "p", "%", "3", "A", "%", "2", "F", "%", "2", "F", "h", "%", "3", "A", "8", "0", "%", "2", "F", "l", "i", "v", "e", "%", "2", "F", "u", "%", "2", "F", "p", "%", "2", "F", "7", ".", "t", "s">>
          /\ LogoOf(r) = <<"h", "t", "t", "p", ":", "/", "/", "x", "/", "i", "m", "a", "g", "e", "-", "p", "r", "o", "x", "y", "/", "h", "t", "t", "p", "%", "3", "A", "%", "2", "F", "%", "2", "F", "i", "%", "2", "F", "c">>


(***************************************************************************)
(* Claims about the series pre-filter (checked under SpecPlaylist).        *)
(***************************************************************************)
Submitted == pc_m3u \in {"running", "done", "raised"}

SeriesPositions ==
    { i \in 1..Len(m3u_args.streams) : m3u_args.streams[i].content_type = "series" }

LookedUp(i) ==
    \E k \in 1..Len(lookups) : <<lookups[k].series_id>> = m3u_args.streams[i].series_id

\* C20: once the lookups are submitted, a series stream has a lookup iff VOD
\* content is requested and the stream passes the inclusion test of the
\* stream loop; there is one lookup per such stream, none for a series left
\* out of the playlist, and none at all when VOD content is not requested.
C20_LookupsFollowFilter ==
    Submitted =>
        /\ \A i \in SeriesPositions :
              LookedUp(i) <=> (m3u_args.include_vod /\ PassesFilter(m3u_args.streams[i]))
        /\ \A i \in SeriesPositions :
              (i <= processed_streams /\ ~included[i]) => ~LookedUp(i)
        /\ Len(lookups) = Cardinality({ i \in SeriesPositions : LookedUp(i) })
        /\ ~m3u_args.include_vod => lookups = <<>>

\* C20 witness: VOD content requested, two series in the catalog, one
\* filtered out and never looked up, the other looked up and emitted.
C20_Witness ==
    /\ pc_m3u = "done"
    /\ m3u_args.include_vod
    /\ Len(lookups) = 1
    /\ \E i, j \in SeriesPositions :
          /\ ~LookedUp(i) /\ ~included[i] /\ RecordsOf(i) = {}
          /\ LookedUp(j) /\ included[j] /\ RecordsOf(j) # {}


(***************************************************************************)
(* Claims about the /m3u request (checked under SpecRequest).              *)
(***************************************************************************)
\* the steps a request made upstream, in order
StepsOf(r) == [k \in 1..Len(m3u_requests[r].received) |-> m3u_requests[r].received[k].step]

TransportFailure(reply) == reply.kind \in {"ssl_error", "request_exception"}

LacksInfo(reply) ==
    reply.kind = "json_object" /\ (reply.user_info = <<>> \/ reply.server_info = <<>>)

\* the error a failed validation surfaces: the fetch error of a transport
\* failure, "Invalid Response" for an answer lacking user_info or server_info
ValidationError(reply) ==
    IF TransportFailure(reply)
    THEN [error |-> fetch_api_data(Reply(reply.kind, <<>>)).error, status |-> 503]
    ELSE [error |-> "Invalid Response", status |-> 400]

ValidationFailed(r) ==
    /\ Len(m3u_requests[r].received) >= 1
    /\ LET reply == m3u_requests[r].received[1].reply
       IN  TransportFailure(reply) \/ LacksInfo(reply)

\* the validation ended with an exception that fetch_api_data does not catch
ValidationRaisedIn(r) ==
    /\ Len(m3u_requests[r].received) >= 1
    /\ m3u_requests[r].received[1].reply.kind = "other_exception"

CatalogFailed(r) ==
    /\ Len(m3u_requests[r].received) >= 2
    /\ ~m3u_requests[r].received[2].reply.has_data

\* C17: when the credential validation of a /m3u request fails (transport
\* failure, or an answer lacking user_info or server_info) or its catalog
\* fetch returns an error, the response is that error with its status code,
\* it carries no playlist, and the failed step is the last upstream step of
\* the request: no catalog fetch after a failed validation, no episode
\* lookup after a failed catalog fetch.  A validation that ends with an
\* exception is the last upstream step too, and is answered with the 500
\* page, without a playlist.
C17_HardFailureAborts ==
    \A r \in DOMAIN m3u_requests :
        /\ ValidationRaisedIn(r) =>
              /\ m3u_requests[r].response = <<InternalServerError>>
              /\ StepsOf(r) = <<"player_api">>
        /\ ValidationFailed(r) =>
              LET e == ValidationError(m3u_requests[r].received[1].reply)
              IN  /\ m3u_requests[r].response
                        = <<Response(e.status, "application/json", e.error, <<>>)>>
                  /\ StepsOf(r) = <<"player_api">>
        /\ CatalogFailed(r) =>
              LET ret == m3u_requests[r].received[2].reply
              IN  /\ m3u_requests[r].response
                        = <<Response(ret.status, "application/json", ret.error, <<>>)>>
                  /\ StepsOf(r) = <<"player_api", "catalog">>

\* C17 witness: one request was answered 400 after an auth answer without
\* server_info, the other 500 after a catalog fetch that returned "Invalid
\* Data Format"; include_vod was set on both.
C17_Witness ==
    /\ m3u_requests[1].params.include_vod /\ m3u_requests[2].params.include_vod
    /\ m3u_requests[1].pc = "responded" /\ m3u_requests[2].pc = "responded"
    /\ ValidationFailed(1)
    /\ m3u_requests[1].received[1].reply.server_info = <<>>
    /\ m3u_requests[1].response[1].status = 400
    /\ CatalogFailed(2)
    /\ m3u_requests[2].response[1].status = 500
    /\ m3u_requests[2].response[1].playlist = <<>>


(***************************************************************************)
(* Claims about requests handled side by side (checked under SpecRequest). *)
(***************************************************************************)
\* the replies a request received itself at one kind of step, in order
RECURSIVE OwnReplies(_, _, _)
OwnReplies(r, name, k) ==
    IF k > Len(m3u_requests[r].received) THEN <<>>
    ELSE (IF m3u_requests[r].received[k].step = name
          THEN <<m3u_requests[r].received[k].reply>> ELSE <<>>)
         \o OwnReplies(r, name, k + 1)

\* the episode map built from the answers the request's own lookups got,
\* each for the series it was made for
OwnMap(series, replies) ==
    LET answered == { k \in 1..Len(replies) :
                        /\ \E j \in 1..Len(series) : series[j].series_id = replies[k].series_id
                        /\ fetch_series_episodes(replies[k].answer) # NoEpisodes }
    IN  [x \in {replies[k].series_id : k \in answered} |->
           fetch_series_episodes(
              replies[CHOOSE k \in answered : replies[k].series_id = x].answer)]

\* the response computed from the request's parameters and from the upstream
\* replies it received itself, and from nothing else
OwnOutcome(r) ==
    LET params == m3u_requests[r].params
        auth == OwnReplies(r, "player_api", 1)
        fetched == OwnReplies(r, "catalog", 1)
        answers == OwnReplies(r, "get_series_info", 1)
    IN  IF ~params.complete THEN ErrorResponse("Missing Parameters", 400)
        ELSE IF validate_xtream_credentials(auth[1]).raised THEN InternalServerError
        ELSE IF validate_xtream_credentials(auth[1]).error # ""
        THEN ErrorResponse(validate_xtream_credentials(auth[1]).error,
                           validate_xtream_credentials(auth[1]).status)
        ELSE IF ~fetched[1].has_data
        THEN ErrorResponse(fetched[1].error, fetched[1].status)
        ELSE LET a == PlaylistArgs(params, auth[1], fetched[1])
                 series == IF a.include_vod THEN series_to_fetch(a, 1) ELSE <<>>
                 out == stream_loop(a, OwnMap(series, answers), 1, <<>>)
             IN  IF out.raised THEN InternalServerError
                 ELSE Response(200, "audio/x-scpls", "", <<out.records>>)

Responded(r) == m3u_requests[r].pc = "responded"

\* C19: requests never influence one another.  In every interleaving of the
\* requests, the response of each is the one computed from its own
\* parameters and the upstream replies it received itself; every request
\* that got past validation fetched the catalog itself, once, and the
\* catalog it works with is the one that fetch returned.
C19_RequestsIsolated ==
    \A r \in DOMAIN m3u_requests :
        /\ Responded(r) => m3u_requests[r].response = <<OwnOutcome(r)>>
        /\ m3u_requests[r].catalog # <<>> =>
              m3u_requests[r].catalog = OwnReplies(r, "catalog", 1)
        /\ (Responded(r) /\ m3u_requests[r].response[1].status = 200) =>
              Len(OwnReplies(r, "catalog", 1)) = 1

\* C19 witness: two requests with the same parameters were interleaved (each
\* fetched its catalog while the other was in flight), the upstream gave them
\* different catalogs, and each was answered with the playlist of its own.
C19_Witness ==
    /\ Responded(1) /\ Responded(2)
    /\ m3u_requests[1].params = m3u_requests[2].params
    /\ Len(m3u_requests[1].received) >= 2 /\ Len(m3u_requests[2].received) >= 2
    /\ m3u_requests[1].received[2].step = "catalog"
    /\ m3u_requests[1].received[2].during = {2}
    /\ m3u_requests[2].received[2].step = "catalog"
    /\ m3u_requests[2].received[2].during = {1}
    /\ m3u_requests[1].catalog # m3u_requests[2].catalog
    /\ m3u_requests[1].response[1].status = 200
    /\ m3u_requests[2].response[1].status = 200
    /\ m3u_requests[1].response[1].playlist # m3u_requests[2].response[1].playlist
    /\ \E k \in 1..Len(m3u_requests[1].received) :
          m3u_requests[1].received[k].step = "get_series_info"


(***************************************************************************)
(* Claims about the progress of the catalog fetch (checked under           *)
(* SpecFetchLive).                                                         *)
(***************************************************************************)
AllFinished == pc_fetch = "fetching" /\ \A n \in DOMAIN futures : futures[n] = "done"

\* a step changes a request only by starting it or by ending it with its
\* own result, ends at most one request, keeps what every finished future
\* holds, and keeps every stored result
OnlyOwnCompletion ==
    /\ \A n \in DOMAIN futures :
          futures'[n] # futures[n] =>
              \/ futures[n] = "queued" /\ futures'[n] = "running"
              \/ /\ futures[n] = "running" /\ futures'[n] = "done"
                 /\ n \notin DOMAIN future_result /\ n \in DOMAIN future_result'
    /\ Cardinality({n \in DOMAIN futures : futures'[n] = "done" /\ futures[n] # "done"}) <= 1
    /\ \A n \in DOMAIN future_result :
          n \in DOMAIN future_result' /\ future_result'[n] = future_result[n]
    /\ \A n \in DOMAIN results : n \in DOMAIN results' /\ results'[n] = results[n]
    /\ \A n \in DOMAIN results' : results'[n] = future_result'[n]

AggregatedAfterAll ==
    pc_fetch = "done" =>
        /\ \A n \in DOMAIN futures : futures[n] = "done"
        /\ DOMAIN results = DOMAIN futures

\* C21: in the catalog fetch no step cancels or aborts a sibling request (a
\* request leaves the running state only with its own result, whatever the
\* others returned), the aggregation happens only once every submitted
\* request has finished, and once all have finished it does happen.
C21_NoCancellation ==
    /\ [][OnlyOwnCompletion]_vars
    /\ []AggregatedAfterAll
    /\ (AllFinished ~> pc_fetch = "done")

\* C21 witness: the six requests of a playlist fetch all finished; the
\* live_categories request failed in transport, vod_categories raised, and
\* the four others returned their lists all the same.
C21_Witness ==
    /\ pc_fetch = "done"
    /\ DOMAIN results = EndpointNames
    /\ results["live_categories"].type = "tuple"
    /\ results["vod_categories"].type = "none"
    /\ \A n \in EndpointNames \ {"live_categories", "vod_categories"} :
          results[n].type = "list" /\ results[n].items # <<>>


(***************************************************************************)
(* Claims about the worker pools (checked under SpecPipeline).             *)
(***************************************************************************)
EndpointsInFlight == {n \in DOMAIN futures : futures[n] = "running"}

LookupsInFlight == {k \in 1..Len(lookups) : lookups[k].status = "running"}

\* C22: within one request, never more than 10 catalog endpoint requests
\* are in flight and never more than 5 episode lookups, also when more
\* series than that have to be resolved.
C22_BoundedPools ==
    /\ Cardinality(EndpointsInFlight) <= 10
    /\ Cardinality(LookupsInFlight) <= 5

\* C22 witness: the fetch of the request ran its six endpoints, six series
\* have to be resolved, five lookups are in flight and the sixth waits.
C22_Witness ==
    /\ pc_fetch = "done"
    /\ DOMAIN futures = EndpointNames
    /\ Len(lookups) = 6
    /\ Cardinality(LookupsInFlight) = 5
    /\ \E k \in 1..Len(lookups) : lookups[k].status = "queued"


(***************************************************************************)
(* Claims about the endpoints requested (checked under SpecFetchLive).     *)
(***************************************************************************)
ExpectedEndpoints ==
    {"live_categories", "live_streams"}
    \cup (IF fetch_args.include_vod THEN {"vod_categories", "series_categories"} ELSE {})
    \cup (IF fetch_args.include_vod /\ fetch_args.endpoint = "api.generate_m3u"
          THEN {"vod_streams", "series"} ELSE {})

\* the names submitted, one per entry of the endpoint list
SubmittedNames ==
    LET eps == api_endpoints(fetch_args.include_vod, fetch_args.endpoint)
    IN  [k \in 1..Len(eps) |-> eps[k].name]

RequestedAsExpected ==
    pc_fetch # "start" =>
        /\ DOMAIN futures = ExpectedEndpoints
        /\ {SubmittedNames[k] : k \in 1..Len(SubmittedNames)} = ExpectedEndpoints
        /\ Len(SubmittedNames) = Cardinality(ExpectedEndpoints)

\* a request that has started is never started again
NeverRequestedAgain ==
    \A n \in DOMAIN futures :
        /\ futures[n] = "running" => futures'[n] \in {"running", "done"}
        /\ futures[n] = "done" => futures'[n] = "done"

\* C23: the endpoints requested are live_categories and live_streams always,
\* vod_categories and series_categories iff include_vod, vod_streams and
\* series iff include_vod on the playlist route; each is submitted once and
\* never requested again.
C23_EndpointSet ==
    /\ []RequestedAsExpected
    /\ [][NeverRequestedAgain]_vars

\* C23 witness: a categories-only request with include_vod finished having
\* requested the four category and live endpoints, not vod_streams or series.
C23_Witness ==
    /\ pc_fetch = "done"
    /\ fetch_args.include_vod
    /\ fetch_args.endpoint = "api.get_categories"
    /\ DOMAIN results = {"live_categories", "live_streams", "vod_categories",
                         "series_categories"}


(***************************************************************************)
(* Claims about the aggregate and the order the endpoint requests complete *)
(* in (checked under SpecFetch, which takes the requests in every order).  *)
(***************************************************************************)
KindOfEndpoint(name) ==
    CASE name \in {"live_categories", "live_streams"} -> "live"
      [] name \in {"vod_categories", "vod_streams"} -> "vod"
      [] OTHER -> "series"

\* the entries an endpoint answered with, tagged with the endpoint's kind;
\* none when it did not answer with a list or was not to be merged
EntriesOf(name) ==
    IF name \in DOMAIN results /\ results[name].type = "list"
       /\ (KindOfEndpoint(name) = "live" \/ fetch_args.include_vod)
    THEN [k \in 1..Len(results[name].items) |->
             [src |-> name, n |-> results[name].items[k].n,
              content_type |-> KindOfEndpoint(name)]]
    ELSE <<>>

\* C29: whatever order the endpoint requests completed in, a fetch that
\* returns data returns the live, then the vod, then the series categories,
\* and the live streams, then the vod streams, then the series, each list in
\* the order its endpoint gave it and each entry tagged with the kind of the
\* endpoint it came from.
C29_AggregateOrder ==
    (pc_fetch = "done" /\ fetch_return.has_data) =>
        /\ fetch_return.categories =
              EntriesOf("live_categories") \o EntriesOf("vod_categories")
                 \o EntriesOf("series_categories")
        /\ fetch_return.streams =
              EntriesOf("live_streams") \o EntriesOf("vod_streams") \o EntriesOf("series")

\* C29 witness: a playlist fetch in which all six endpoints answered with a
\* non-empty list returned six entries in that order.
C29_Witness ==
    /\ pc_fetch = "done"
    /\ fetch_return.has_data
    /\ DOMAIN results = EndpointNames
    /\ \A n \in EndpointNames : results[n].type = "list" /\ results[n].items # <<>>
    /\ Len(fetch_return.streams) >= 3
    /\ fetch_return.streams[1].content_type = "live"
    /\ fetch_return.streams[Len(fetch_return.streams)].content_type = "series"
    /\ fetch_return.categories[Len(fetch_return.categories)].src = "series_categories"


(***************************************************************************)
(* Claims about whole-label wildcard patterns (checked under SpecMatch).   *)
(***************************************************************************)
\* the glob of the claim: '*' is any run of characters, '?' is one
\* character, every other character is itself
RECURSIVE StarQuestionGlob(_, _)
StarQuestionGlob(name, pat) ==
    IF pat = <<>> THEN name = <<>>
    ELSE IF Head(pat) = "*"
         THEN StarQuestionGlob(name, Tail(pat))
              \/ (name # <<>> /\ StarQuestionGlob(Tail(name), pat))
    ELSE IF Head(pat) = "?"
         THEN name # <<>> /\ StarQuestionGlob(Tail(name), Tail(pat))
    ELSE name # <<>> /\ Head(name) = Head(pat) /\ StarQuestionGlob(Tail(name), Tail(pat))

WholeLabelWildcard(pattern) ==
    /\ \A j \in 1..Len(pattern) : pattern[j] # " "
    /\ \E j \in 1..Len(pattern) : pattern[j] \in {"*", "?"}

\* C26: for a pattern without a space that contains '*' or '?',
\* group_matches is true iff the whole lower-cased label matches the
\* lower-cased pattern with '*' for any run of characters, '?' for exactly
\* one character and every other character for itself.
C26_StarQuestionOnly ==
    (MatchReturned /\ WholeLabelWildcard(match_args.pattern)) =>
        (match_return[1] <=>
            StarQuestionGlob(lower(match_args.group_title), lower(match_args.pattern)))

(***************************************************************************)
(* Claims about one call of generate_m3u_playlist (checked under           *)
(* SpecGenerate).                                                          *)
(***************************************************************************)
Generated == generate_return # <<>>

\* the tvg-name of each record of the returned playlist
NamesIn(records) == {records[i].tags[1].value : i \in 1..Len(records)}

StreamNames(streams) == {streams[i].name : i \in 1..Len(streams)}

\* the comma-separated string has an item with nothing between its commas
HasEmptyItem(s) ==
    /\ s # <<>>
    /\ \E i \in 0..Len(s) :
         /\ (i = 0 \/ s[i] = ",")
         /\ (i = Len(s) \/ s[i + 1] = ",")

\* C30: an empty item of the comma-separated filter (as in "News," or
\* "a,,b") is parsed to an empty pattern, and the empty pattern matches every
\* label: in the wanted list it lets every stream into the playlist, and in
\* the unwanted list, with no wanted list, it keeps every stream out.
C30_EmptyPatternMatchesAll ==
    Generated =>
        LET g == generate_args
            out == generate_return[1]
        IN  /\ HasEmptyItem(g.wanted_string) =>
                 /\ \E k \in 1..Len(parse_group_list(g.wanted_string)) :
                        parse_group_list(g.wanted_string)[k] = <<>>
                 /\ ~out.raised
                 /\ StreamNames(g.streams) \subseteq NamesIn(out.records)
            /\ (g.wanted_string = <<>> /\ HasEmptyItem(g.unwanted_string)) =>
                 /\ \E k \in 1..Len(parse_group_list(g.unwanted_string)) :
                        parse_group_list(g.unwanted_string)[k] = <<>>
                 /\ out.records = <<>>
                 /\ out.text = <<"#", "E", "X", "T", "M", "3", "U">> \o <<"\n">>

\* "News," as the wanted filter lets a film of the category Movies in
C30_Witness ==
    /\ Generated
    /\ generate_args.wanted_string = <<"N", "e", "w", "s", ",">>
    /\ generate_args.streams = <<S_CNN, S_Show, S_Film>>
    /\ S_Film.name \in NamesIn(generate_return[1].records)

\* the records of the returned playlist that carry this tvg-name
RecordsNamed(records, name) == SelectSeq(records, LAMBDA r : r.tags[1].value = name)

TitlesOf(records) == [i \in 1..Len(records) |-> records[i].title]

NumericSeason(season) ==
    isdigit(season.season_num) /\ ~IntRaises(season.season_num)

\* the order the claim gives to two seasons: numeric ones by their number,
\* every numeric one before every other
SeasonBefore(a, b) ==
    /\ NumericSeason(a)
    /\ ~NumericSeason(b) \/ StrToInt(a.season_num) < StrToInt(b.season_num)

\* the seasons in that order, seasons it does not tell apart left as they came
RECURSIVE PlaceSeason(_, _)
PlaceSeason(placed, season) ==
    IF placed = <<>> THEN <<season>>
    ELSE IF ~SeasonBefore(season, placed[Len(placed)])
         THEN Append(placed, season)
         ELSE Append(PlaceSeason(SubSeq(placed, 1, Len(placed) - 1), season),
                     placed[Len(placed)])

RECURSIVE SeasonsInOrder(_, _, _)
SeasonsInOrder(seasons, i, placed) ==
    IF i > Len(seasons) THEN placed
    ELSE SeasonsInOrder(seasons, i + 1, PlaceSeason(placed, seasons[i]))

\* the titles of the episodes of the seasons, season after season, each
\* season's episodes as they were returned
RECURSIVE TitlesInOrder(_, _, _)
TitlesInOrder(name, seasons, i) ==
    IF i > Len(seasons) THEN <<>>
    ELSE [e \in 1..Len(seasons[i].episodes) |->
             TitleJoined(name, <<seasons[i].season_num, seasons[i].episodes[e]>>)]
         \o TitlesInOrder(name, seasons, i + 1)

\* the streams of the call that are series with resolved episodes and that
\* the filter let in
ExpandedSeries ==
    { i \in 1..Len(generate_args.streams) :
        /\ generate_args.streams[i].content_type = "series"
        /\ EpisodesData(generate_args.episodes, generate_args.streams[i]) # <<>>
        /\ generate_args.streams[i].name \in NamesIn(generate_return[1].records) }

\* C24: the records of one series come sorted by numeric season ascending,
\* every non-numeric season key after all numeric seasons and in original
\* order among themselves, and within a season in the order the episodes
\* were returned by upstream.
C24_SeasonOrder ==
    Generated =>
        \A i \in ExpandedSeries :
            LET stream == generate_args.streams[i]
                payload == EpisodesData(generate_args.episodes, stream)[1]
            IN  TitlesOf(RecordsNamed(generate_return[1].records, stream.name))
                  = TitlesInOrder(stream.name,
                                  SeasonsInOrder(payload.seasons, 1, <<>>), 1)

\* the category the spec scopes a stream to: the one with the stream's
\* category_id among the categories of the stream's own content kind
ScopedCategoryName(cats, stream) ==
    LET own == SelectSeq(cats, LAMBDA c : c.content_type = stream.content_type)
    IN  CategoryName(own, stream)

ScopedGroupTitle(cats, stream) ==
    IF stream.content_type = "series"
    THEN <<"S", "e", "r", "i", "e", "s", " ", "-", " ">> \o ScopedCategoryName(cats, stream)
    ELSE IF stream.content_type = "vod"
         THEN <<"V", "O", "D", " ", "-", " ">> \o ScopedCategoryName(cats, stream)
         ELSE ScopedCategoryName(cats, stream)

\* C27: the group title of a stream's records is the name of the category
\* that has the stream's category_id within the stream's own content kind
\* (plain for live, behind "VOD - " for vod, behind "Series - " for series),
\* also when categories of different content kinds share an id.
C27_GroupTitleScopedByKind ==
    Generated =>
        \A i \in 1..Len(generate_args.streams) :
            LET stream == generate_args.streams[i]
                own == RecordsNamed(generate_return[1].records, stream.name)
            IN  \A k \in 1..Len(own) :
                    /\ own[k].tags[2].key = <<"g", "r", "o", "u", "p", "-", "t", "i", "t", "l", "e">>
                    /\ own[k].tags[2].value
                         = ScopedGroupTitle(generate_args.categories, stream)

TagKeys(r) == {r.tags[k].key : k \in 1..Len(r.tags)}

TagValues(r, key) == {r.tags[k].value : k \in {j \in 1..Len(r.tags) : r.tags[j].key = key}}

\* every record of every stream of the call satisfies P(stream, record)
EveryRecord(P(_, _)) ==
    \A i \in 1..Len(generate_args.streams) :
        LET own == RecordsNamed(generate_return[1].records, generate_args.streams[i].name)
        IN  \A k \in 1..Len(own) : P(generate_args.streams[i], own[k])

NameAndGroupTags(stream, r) ==
    /\ TagValues(r, <<"t", "v", "g", "-", "n", "a", "m", "e">>) = {stream.name}
    /\ <<"g", "r", "o", "u", "p", "-", "t", "i", "t", "l", "e">> \in TagKeys(r)

\* the channel tag is one more tag behind the other tags of the record
ChannelTagWhenEnabled(stream, r) ==
    LET others == SelectSeq(r.tags, LAMBDA t : t.key \in {<<"t", "v", "g", "-", "n", "a", "m", "e">>, <<"g", "r", "o", "u", "p", "-", "t", "i", "t", "l", "e">>, <<"t", "v", "g", "-", "l", "o", "g", "o">>})
    IN  IF generate_args.include_channel_id /\ stream.epg_channel_id # <<>>
        THEN r.tags = Append(others, [key |-> generate_args.channel_id_tag,
                                      value |-> stream.epg_channel_id])
        ELSE r.tags = others

LogoTagOnlyWithLogo(stream, r) ==
    <<"t", "v", "g", "-", "l", "o", "g", "o">> \in TagKeys(r) => stream.stream_icon # <<>>

LogoTagAlways(stream, r) ==
    /\ <<"t", "v", "g", "-", "l", "o", "g", "o">> \in TagKeys(r)
    /\ <<>> \in TagValues(r, <<"t", "v", "g", "-", "l", "o", "g", "o">>) <=> stream.stream_icon = <<>>

\* C28 as stated: every metadata line carries tvg-name and group-title, a
\* tvg-logo tag only when the stream has a logo, and the caller-named
\* channel tag only when the option is enabled and the stream has a channel
\* identifier.
C28_Original_LogoOnlyWithLogo ==
    Generated =>
        /\ EveryRecord(NameAndGroupTags)
        /\ EveryRecord(LogoTagOnlyWithLogo)
        /\ EveryRecord(ChannelTagWhenEnabled)

\* C28, amended: every metadata line carries tvg-name, group-title and
\* tvg-logo, the value of tvg-logo being empty exactly when the stream has
\* no logo; it carries the caller-named channel tag exactly when the option
\* is enabled and the stream has a channel identifier.
C28_TagsOfEveryLine ==
    Generated =>
        /\ EveryRecord(NameAndGroupTags)
        /\ EveryRecord(LogoTagAlways)
        /\ EveryRecord(ChannelTagWhenEnabled)

\* with the option enabled, a channel with a logo and a channel identifier
\* next to a series without either
C28_Witness ==
    /\ Generated
    /\ generate_args.include_channel_id
    /\ generate_args.streams = <<S_CNN, S_Show, S_Film>>
    /\ \E r \in {generate_return[1].records[k] : k \in 1..Len(generate_return[1].records)} :
           /\ r.tags[1].value = S_CNN.name
           /\ TagValues(r, generate_args.channel_id_tag) = {S_CNN.epg_channel_id}
    /\ \E r \in {generate_return[1].records[k] : k \in 1..Len(generate_return[1].records)} :
           /\ r.tags[1].value = S_Show.name
           /\ TagValues(r, <<"t", "v", "g", "-", "l", "o", "g", "o">>) = {<<>>}
           /\ generate_args.channel_id_tag \notin TagKeys(r)

\* the lines of the returned text; the text ends with a line feed, so the
\* last piece is empty
LineFeeds(text) == {i \in 1..Len(text) : text[i] = "\n"}

\* where the k-th line ends: at its line feed, or behind the text
LineEnd(text, k) ==
    IF k = 0 THEN 0
    ELSE IF k > Cardinality(LineFeeds(text)) THEN Len(text) + 1
    ELSE CHOOSE i \in LineFeeds(text) :
             Cardinality({j \in LineFeeds(text) : j <= i}) = k

LinesOf(text) ==
    [k \in 1..(Cardinality(LineFeeds(text)) + 1) |->
        SubSeq(text, LineEnd(text, k - 1) + 1, LineEnd(text, k) - 1)]

\* the characters of s from position i up to the next double quote
RECURSIVE UpToQuote(_, _)
UpToQuote(s, i) ==
    IF i > Len(s) \/ s[i] = "\"" THEN <<>> ELSE <<s[i]>> \o UpToQuote(s, i + 1)

\* the tvg-name on a metadata line
NameOnLine(line) == UpToQuote(line, Len(<<"#", "E", "X", "T", "I", "N", "F", ":", "0", " ", "t", "v", "g", "-", "n", "a", "m", "e", "=", ".">>) + 1)

RECURSIVE EpisodeCount(_, _)
EpisodeCount(seasons, i) ==
    IF i > Len(seasons) THEN 0
    ELSE Len(seasons[i].episodes) + EpisodeCount(seasons, i + 1)

\* the filter of the call lets the stream in
LetIn(stream) ==
    include_stream(CategoryName(generate_args.categories, stream),
                   GroupTitle(generate_args.categories, stream),
                   parse_group_list(generate_args.wanted_string),
                   parse_group_list(generate_args.unwanted_string))

\* how many records a stream contributes
RecordCount(stream) ==
    IF ~LetIn(stream) THEN 0
    ELSE IF stream.content_type = "series"
            /\ EpisodesData(generate_args.episodes, stream) # <<>>
         THEN EpisodeCount(EpisodesData(generate_args.episodes, stream)[1].seasons, 1)
         ELSE 1

\* the name of each stream once per record it contributes, in input order
RECURSIVE NamesInInputOrder(_, _)
NamesInInputOrder(streams, i) ==
    IF i > Len(streams) THEN <<>>
    ELSE [k \in 1..RecordCount(streams[i]) |-> streams[i].name]
         \o NamesInInputOrder(streams, i + 1)

\* C25: the first line of the playlist is #EXTM3U; after it every included
\* record contributes one #EXTINF:0 metadata line immediately followed by
\* its URL line, and the records of different streams come in the order of
\* their streams in the input list, excluded streams contributing nothing.
C25_PlaylistLayout ==
    (Generated /\ ~generate_return[1].raised) =>
        LET records == generate_return[1].records
            lines == LinesOf(generate_return[1].text)
        IN  /\ Len(lines) = 2 * Len(records) + 2
            /\ lines[1] = <<"#", "E", "X", "T", "M", "3", "U">>
            /\ lines[Len(lines)] = <<>>
            /\ \A k \in 1..Len(records) :
                 /\ StartsWith(lines[2 * k], <<"#", "E", "X", "T", "I", "N", "F", ":", "0", " ">>)
                 /\ EndsWith(lines[2 * k], <<",">> \o records[k].title)
                 /\ lines[2 * k + 1] = records[k].url
                 /\ lines[2 * k + 1] # <<>> /\ lines[2 * k + 1][1] # "#"
            /\ [k \in 1..Len(records) |-> NameOnLine(lines[2 * k])]
                 = NamesInInputOrder(generate_args.streams, 1)

\* a channel the filter leaves out, then a series with its episodes, then a
\* film
C25_Witness ==
    /\ Generated
    /\ generate_args.streams = <<S_CNN, S_Show, S_Film>>
    /\ ~LetIn(S_CNN) /\ LetIn(S_Show) /\ LetIn(S_Film)
    /\ RecordCount(S_Show) > 2
    /\ Len(LinesOf(generate_return[1].text)) = 2 * (RecordCount(S_Show) + 1) + 2

=============================================================================
